---- MODULE Spec2Model ----
(***************************************************************************)
(* A model of convnetjs: the Vol tensor, the Net layer pipeline and its    *)
(* makeLayers construction, and the Trainer's update state machine.        *)
(*                                                                         *)
(* Numbers.  A JavaScript number is modelled as a fixed-point value        *)
(* [v |-> i], standing for i/Scale, or as NaN.  Products, quotients and    *)
(* square roots are rounded towards zero onto that grid.  Reading a typed  *)
(* array outside its range gives undefined, which is NaN in arithmetic;    *)
(* writing outside its range is dropped.                                   *)
(***************************************************************************)
EXTENDS Integers, Sequences, FiniteSets, TLC

\* ------------------------------------------------------------------ bounds

\* Fixed-point resolution: the number x is stored as x*Scale.
Scale == 100
\* Train calls made in a behaviour.
MaxK == 3
\* Definitions in the list makeLayers is given.
MaxDefs == 3
\* Distinct input Vols handed to Net.forward.
MaxVols == 3
\* Targets handed to Net.backward are 0..MaxTarget.
MaxTarget == 2
\* Operations applied to one Vol in a behaviour.
MaxVolOps == 3
\* Input and filter sizes of the layers constructed are 1..MaxSize.
MaxSize == 4
\* Their strides are 1..MaxStride.
MaxStride == 3

\* ----------------------------------------------------------------- numbers

Num(i) == [v |-> i]
NaN == [nan |-> TRUE]
IsNaN(a) == a = NaN

\* Integer quotient rounded towards zero (b # 0).
Quot(a, b) ==
  LET q == (IF a < 0 THEN -a ELSE a) \div (IF b < 0 THEN -b ELSE b)
  IN  IF (a < 0) = (b < 0) THEN q ELSE -q

\* Largest r in lo..hi with r*r <= n, by bisection (lo*lo <= n < (hi+1)*(hi+1)).
RECURSIVE Bisect(_, _, _)
Bisect(n, lo, hi) ==
  IF lo = hi THEN lo
  ELSE LET mid == (lo + hi + 1) \div 2
       IN  IF mid * mid <= n THEN Bisect(n, mid, hi) ELSE Bisect(n, lo, mid - 1)

\* Largest r with r*r <= n (n >= 0).
ISqrt(n) == Bisect(n, 0, IF n < 46340 THEN n ELSE 46340)

Add(a, b) == IF IsNaN(a) \/ IsNaN(b) THEN NaN ELSE Num(a.v + b.v)
Sub(a, b) == IF IsNaN(a) \/ IsNaN(b) THEN NaN ELSE Num(a.v - b.v)
Neg(a) == IF IsNaN(a) THEN NaN ELSE Num(-a.v)
Mul(a, b) == IF IsNaN(a) \/ IsNaN(b) THEN NaN ELSE Num(Quot(a.v * b.v, Scale))
\* x/0 is an infinity or NaN in JavaScript; the grid has no infinities.
Div(a, b) ==
  IF IsNaN(a) \/ IsNaN(b) THEN NaN
  ELSE IF b.v = 0 THEN NaN
  ELSE Num(Quot(a.v * Scale, b.v))
Sqrt(a) == IF IsNaN(a) THEN NaN ELSE IF a.v < 0 THEN NaN ELSE Num(ISqrt(a.v * Scale))
Abs(a) == IF IsNaN(a) THEN NaN ELSE Num(IF a.v < 0 THEN -a.v ELSE a.v)
\* a > b; a comparison with NaN is false.
Gt(a, b) == ~IsNaN(a) /\ ~IsNaN(b) /\ a.v > b.v

Zero == Num(0)
One == Num(Scale)
Two == Num(2 * Scale)

\* global.zeros(n): a zero-filled Float64Array of length n.
zeros(n) == [i \in 1..n |-> Zero]

\* arr[j] of a typed array, j counted from 1.
ReadF64(arr, j) == IF j \in 1..Len(arr) THEN arr[j] ELSE NaN
\* arr[j] = x of a typed array.
WriteF64(arr, j, x) == IF j \in 1..Len(arr) THEN [arr EXCEPT ![j] = x] ELSE arr

\* ------------------------------------------------------------------- Vol

\* new Vol(list): a 1x1xn Vol holding a copy of the list.
VolFromList(list) ==
  [sx |-> 1, sy |-> 1, depth |-> Len(list),
   w |-> [i \in 1..Len(list) |-> list[i]],
   dw |-> zeros(Len(list))]

\* new Vol(sx, sy, depth, c)
VolOf(sx, sy, depth, c) ==
  LET n == sx * sy * depth
  IN  [sx |-> sx, sy |-> sy, depth |-> depth,
       w |-> [i \in 1..n |-> c], dw |-> zeros(n)]

\* new Vol(sx, sy, depth) with c omitted, rnd[i] being the i-th randn draw.
VolRandom(sx, sy, depth, rnd) ==
  LET n == sx * sy * depth
  IN  [sx |-> sx, sy |-> sy, depth |-> depth,
       w |-> [i \in 1..n |-> rnd[i]], dw |-> zeros(n)]

\* ((this.sx * y)+x)*this.depth+d, counted from 0.
Ix(V, x, y, d) == ((V.sx * y) + x) * V.depth + d

Vol_get(V, x, y, d) == ReadF64(V.w, Ix(V, x, y, d) + 1)
Vol_set(V, x, y, d, v) == [V EXCEPT !.w = WriteF64(V.w, Ix(V, x, y, d) + 1, v)]
Vol_add(V, x, y, d, v) ==
  LET ix == Ix(V, x, y, d) + 1
  IN  [V EXCEPT !.w = WriteF64(V.w, ix, Add(ReadF64(V.w, ix), v))]
Vol_get_grad(V, x, y, d) == ReadF64(V.dw, Ix(V, x, y, d) + 1)
Vol_set_grad(V, x, y, d, v) == [V EXCEPT !.dw = WriteF64(V.dw, Ix(V, x, y, d) + 1, v)]
Vol_add_grad(V, x, y, d, v) ==
  LET ix == Ix(V, x, y, d) + 1
  IN  [V EXCEPT !.dw = WriteF64(V.dw, ix, Add(ReadF64(V.dw, ix), v))]

Vol_cloneAndZero(V) == VolOf(V.sx, V.sy, V.depth, Zero)

\* clone: a zero Vol of the same dimensions, then V.w[i] = this.w[i] for
\* every i below this.w.length.
Vol_clone(T) ==
  LET V == VolOf(T.sx, T.sy, T.depth, Zero)
  IN  [V EXCEPT !.w = [i \in 1..Len(V.w) |-> IF i <= Len(T.w) THEN T.w[i] ELSE V.w[i]]]

Vol_addFrom(T, V) ==
  [T EXCEPT !.w = [i \in 1..Len(T.w) |-> Add(T.w[i], ReadF64(V.w, i))]]
Vol_addFromScaled(T, V, a) ==
  [T EXCEPT !.w = [i \in 1..Len(T.w) |-> Add(T.w[i], Mul(a, ReadF64(V.w, i)))]]
Vol_setConst(T, a) == [T EXCEPT !.w = [i \in 1..Len(T.w) |-> a]]

\* toJSON with the width and the height exchanged.
Vol_toJSONSwapped(T) == [sx |-> T.sy, sy |-> T.sx, depth |-> T.depth, w |-> T.w]

\* toJSON: the dimensions and the weights; the gradients are not saved.
Vol_toJSON(T) == [sx |-> T.sx, sy |-> T.sy, depth |-> T.depth, w |-> T.w]

\* fromJSON: both arrays are made anew with sx*sy*depth entries; an entry
\* json.w lacks is stored as NaN.
Vol_fromJSON(json) ==
  LET n == json.sx * json.sy * json.depth
  IN  [sx |-> json.sx, sy |-> json.sy, depth |-> json.depth,
       w |-> [i \in 1..n |-> ReadF64(json.w, i)],
       dw |-> zeros(n)]

\* ------------------------------------------------------ loops over layers

\* The index triples of three nested for loops, outermost first, in the
\* order the loops visit them.
Loop3(n1, n2, n3) ==
  [j \in 1..(n1 * n2 * n3) |->
     <<(j - 1) \div (n2 * n3), ((j - 1) \div n3) % n2, (j - 1) % n3>>]

\* --------------------------------------------------------------- variables

VARIABLES
  opt,            \* the Trainer's options, fixed at construction
  k,              \* Trainer.k, the iteration counter
  gsum,           \* Trainer.gsum
  xsum,           \* Trainer.xsum
  pglist,         \* the groups net.getParamsAndGrads() returns
  ncalls,         \* history: the train calls made
  afterBackward,  \* history: pglist as the last train call's backward left it
  trainRet        \* history: what the last train call returned or threw

trainerVars == <<opt, k, gsum, xsum, pglist, ncalls, afterBackward, trainRet>>

VARIABLES
  layers,         \* Net.layers
  makeRet,        \* history: how the last makeLayers call ended
  madeFrom,       \* history: the definitions it was given, and desugared to
  console         \* the messages written with console.log

netVars == <<layers, makeRet, madeFrom, console>>

VARIABLES
  acts,           \* per layer, its in_act and out_act (empty before a forward)
  calls,          \* history: the layer calls the last Net call made, in order
  netRet          \* history: what the last Net call returned

passVars == <<acts, calls, netRet>>

VARIABLES
  vol,            \* a Vol object: sx, sy, depth, w and dw
  layer,          \* a layer object the Vol is the input of
  volRet,         \* history: the last operation on them and what it returned
  volOps          \* history: the operations applied

volVars == <<vol, layer, volRet, volOps>>

VARIABLES
  outW,           \* the last layer's out_act.w, once a forward has set it
  predRet,        \* history: what the last getPrediction call returned or threw
  responses,      \* history: what the last two getParamsAndGrads calls returned
  saved,          \* the object a toJSON call returned, kept by the caller
  fnIn,           \* the arguments of a constructor or update under study
  fnOut,          \* history: what it produced from them
  pending         \* history: the inputs of the train calls since the last update

queryVars == <<outW, predRet, responses>>
moreVars == <<queryVars, saved, fnIn, fnOut, pending>>

vars == <<trainerVars, netVars, passVars, volVars, moreVars>>
otherVars == <<trainerVars, netVars, passVars, moreVars>>

\* The values of the variables a behaviour makes no use of.
MoreIdle ==
  /\ outW = [set |-> FALSE, w |-> <<>>]
  /\ predRet = [status |-> "none"]
  /\ responses = <<>>
  /\ saved = [set |-> FALSE]
  /\ fnIn = [fn |-> "none"]
  /\ fnOut = [fn |-> "none"]
  /\ pending = <<>>

VolIdle ==
  /\ vol = [sx |-> 0, sy |-> 0, depth |-> 0, w |-> <<>>, dw |-> <<>>]
  /\ layer = [layer_type |-> "none"]
  /\ volRet = [op |-> "none"]
  /\ volOps = 0

NetIdle ==
  /\ layers = <<>>
  /\ makeRet = "none"
  /\ madeFrom = [defs |-> <<>>, new_defs |-> <<>>, old |-> <<>>]
  /\ console = <<>>

\* ------------------------------------------------------- the trained network

Methods == {"sgd", "adagrad", "windowgrad", "adadelta", "nesterov"}

\* FullyConnLayer.getParamsAndGrads of a freshly constructed layer with n
\* inputs and m neurons: one group per filter, then the bias group.  The
\* filter weights are the constructor's random draw, here w0 in every entry.
FcGroups(n, m, w0, l1mul) ==
  [i \in 1..(m + 1) |->
     IF i <= m
     THEN [params |-> [d \in 1..n |-> w0], grads |-> zeros(n),
           l1_decay_mul |-> l1mul, l2_decay_mul |-> One]
     ELSE [params |-> zeros(m), grads |-> zeros(m),
           l1_decay_mul |-> Zero, l2_decay_mul |-> Zero]]

\* The networks a Trainer is given: the groups of one fully-connected layer
\* of 2 inputs and 1 neuron, of 1 input and 1 neuron, of 2 inputs and 2 neurons.
Networks ==
  {FcGroups(2, 1, One, Zero), FcGroups(1, 1, One, Zero), FcGroups(2, 2, One, Zero)}

\* The input Vol of a train call: V.w[d] for a network with n inputs.
InputW(n, xv) == [d \in 1..n |-> Num(xv * d * Scale)]

\* A backward pass that stores the gradients with = instead of +=.
FcBackwardAssigning(pgs, xv, c) ==
  LET m == Len(pgs) - 1
  IN  [i \in 1..Len(pgs) |->
         IF i <= m
         THEN [pgs[i] EXCEPT !.grads =
                 [d \in 1..Len(pgs[i].grads) |-> Mul(InputW(Len(pgs[i].grads), xv)[d], c)]]
         ELSE [pgs[i] EXCEPT !.grads = [d \in 1..Len(pgs[i].grads) |-> c]]]


\* FullyConnLayer.backward on the filter and bias gradients: chain_grad is the
\* loss layer's gradient c at every neuron.
FcBackward(pgs, xv, c) ==
  LET m == Len(pgs) - 1
  IN  [i \in 1..Len(pgs) |->
         IF i <= m
         THEN [pgs[i] EXCEPT !.grads =
                 [d \in 1..Len(pgs[i].grads) |->
                    Add(pgs[i].grads[d], Mul(InputW(Len(pgs[i].grads), xv)[d], c))]]
         ELSE [pgs[i] EXCEPT !.grads =
                 [d \in 1..Len(pgs[i].grads) |-> Add(pgs[i].grads[d], c)]]]

\* ---------------------------------------------------------------- Trainer

\* The options a Trainer is constructed with: learning_rate 0.1, l2_decay
\* 0.1, momentum 0.9 (0 for plain sgd), ro 0.9 and eps 1/Scale, in units of
\* 1/Scale; batch_size is a count.
TrainerOptions ==
  {o \in [method : Methods,
          learning_rate : {Num(Scale \div 10)},
          l1_decay : {Zero},
          l2_decay : {Num(Scale \div 10)},
          batch_size : {1, 2},
          momentum : {Zero, Num((9 * Scale) \div 10)},
          ro : {Num((9 * Scale) \div 10)},
          eps : {Num(1)}] :
     o.momentum = Zero => o.method = "sgd"}

\* The counter tested before it is incremented.
IsUpdateCallBeforeIncrement(kk, bs) == (kk - 1) % bs = 0

\* this.k % this.batch_size === 0
IsUpdateCall(kk, bs) == kk % bs = 0

\* this.method !== 'sgd' || this.momentum > 0.0
NeedsAccumulators(o) == o.method # "sgd" \/ Gt(o.momentum, Zero)

\* The lazy allocation of gsum and xsum.
Allocate(o, pgs, st) ==
  IF Len(st.gsum) = 0 /\ NeedsAccumulators(o)
  THEN [st EXCEPT
          !.gsum = [i \in 1..Len(pgs) |-> zeros(Len(pgs[i].params))],
          !.xsum = [i \in 1..Len(pgs) |->
                      IF o.method = "adadelta"
                      THEN zeros(Len(pgs[i].params)) ELSE <<>>]]
  ELSE st

\* The gradient entry left as it is.
ZeroGradOmitted(i, j, st) == st

\* g[j] = 0.0
ZeroGrad(i, j, st) == [st EXCEPT !.pglist[i].grads[j] = Zero]

\* One pass of the inner loop body: weight j of group i.  st holds the
\* groups, the accumulators and the decay losses so far.
UpdateEntry(o, i, j, st) ==
  LET pg == st.pglist[i]
      p == pg.params[j]
      g == pg.grads[j]
      l2_decay == Mul(o.l2_decay, pg.l2_decay_mul)
      l1_decay == Mul(o.l1_decay, pg.l1_decay_mul)
      l1grad == Mul(l1_decay, IF Gt(p, Zero) THEN One ELSE Neg(One))
      l2grad == Mul(l2_decay, p)
      gij == IF IsNaN(Add(Add(l2grad, l1grad), g)) THEN NaN
             ELSE Num(Quot(Add(Add(l2grad, l1grad), g).v, o.batch_size))
      gsumi == st.gsum[i]
      xsumi == st.xsum[i]
      gs == ReadF64(gsumi, j)
      xs == ReadF64(xsumi, j)
      lr == o.learning_rate
      \* the step dx, and the new gsumi[j] and xsumi[j] where the branch
      \* assigns them (wg, wx)
      r == CASE o.method = "adagrad" ->
                  LET gs2 == Add(gs, Mul(gij, gij))
                  IN  [gs |-> gs2, xs |-> Zero, wg |-> TRUE, wx |-> FALSE,
                       dx |-> Mul(Div(Neg(lr), Sqrt(Add(gs2, o.eps))), gij)]
             [] o.method = "windowgrad" ->
                  LET gs2 == Add(Mul(o.ro, gs), Mul(Mul(Sub(One, o.ro), gij), gij))
                  IN  [gs |-> gs2, xs |-> Zero, wg |-> TRUE, wx |-> FALSE,
                       dx |-> Mul(Div(Neg(lr), Sqrt(Add(gs2, o.eps))), gij)]
             [] o.method = "adadelta" ->
                  LET gs2 == Add(Mul(o.ro, gs), Mul(Mul(Sub(One, o.ro), gij), gij))
                      dx2 == Mul(Neg(Sqrt(Div(Add(xs, o.eps), Add(gs2, o.eps)))), gij)
                  IN  [gs |-> gs2, wg |-> TRUE, wx |-> TRUE,
                       xs |-> Add(Mul(o.ro, xs), Mul(Mul(Sub(One, o.ro), dx2), dx2)),
                       dx |-> dx2]
             [] o.method = "nesterov" ->
                  LET gs2 == Add(Mul(gs, o.momentum), Mul(lr, gij))
                  IN  [gs |-> gs2, xs |-> Zero, wg |-> TRUE, wx |-> FALSE,
                       dx |-> Sub(Mul(o.momentum, gs), Mul(Add(One, o.momentum), gs2))]
             [] OTHER ->
                  IF Gt(o.momentum, Zero)
                  THEN LET dx2 == Sub(Mul(o.momentum, gs), Mul(lr, gij))
                       IN  [gs |-> dx2, xs |-> Zero, wg |-> TRUE, wx |-> FALSE, dx |-> dx2]
                  ELSE [gs |-> Zero, xs |-> Zero, wg |-> FALSE, wx |-> FALSE,
                        dx |-> Mul(Neg(lr), gij)]
  IN  ZeroGrad(i, j,
        [st EXCEPT
           !.l2_decay_loss = Add(@, Div(Mul(Mul(l2_decay, p), p), Two)),
           !.l1_decay_loss = Add(@, Mul(l1_decay, Abs(p))),
           !.gsum = IF r.wg THEN [@ EXCEPT ![i] = WriteF64(gsumi, j, r.gs)] ELSE @,
           !.xsum = IF r.wx THEN [@ EXCEPT ![i] = WriteF64(xsumi, j, r.xs)] ELSE @,
           !.pglist[i].params[j] = Add(p, r.dx)])

\* for(var j=0;j<plen;j++) over group i, from weight j on.
RECURSIVE GroupLoop(_, _, _, _)
GroupLoop(o, i, j, st) ==
  IF j > Len(st.pglist[i].params) THEN st
  ELSE GroupLoop(o, i, j + 1, UpdateEntry(o, i, j, st))

\* for(var i=0;i<pglist.length;i++), from group i on.  gsum[i] of a group
\* past the end of gsum is undefined, and indexing it throws a TypeError.
RECURSIVE PgLoop(_, _, _)
PgLoop(o, i, st) ==
  IF i > Len(st.pglist) THEN st
  ELSE IF /\ NeedsAccumulators(o)
          /\ i > Len(st.gsum)
          /\ Len(st.pglist[i].params) > 0
       THEN [st EXCEPT !.err = "TypeError"]
       ELSE PgLoop(o, i + 1, GroupLoop(o, i, 1, st))

\* The update step: the body of if(this.k % this.batch_size === 0).
UpdateStep(o, st) == PgLoop(o, 1, Allocate(o, st.pglist, st))

TrainInputs == {[xv |-> 1, c |-> Num(2 * Scale), loss |-> Num(3)],
                [xv |-> 2, c |-> Num(-Scale), loss |-> Num(7)]}

\* The object returned with the cost loss alone as loss.
TrainReturnCostOnly(st, cost_loss) ==
  [status |-> "ok",
   l2_decay_loss |-> st.l2_decay_loss,
   l1_decay_loss |-> st.l1_decay_loss,
   cost_loss |-> cost_loss,
   loss |-> cost_loss]

\* return {l2_decay_loss: ..., l1_decay_loss: ..., cost_loss: cost_loss,
\*         loss: cost_loss + l1_decay_loss + l2_decay_loss}
TrainReturn(st, cost_loss) ==
  [status |-> "ok",
   l2_decay_loss |-> st.l2_decay_loss,
   l1_decay_loss |-> st.l1_decay_loss,
   cost_loss |-> cost_loss,
   loss |-> Add(Add(cost_loss, st.l1_decay_loss), st.l2_decay_loss)]


\* Trainer.train(x, y).
Train(in) ==
  /\ ncalls < MaxK
  /\ LET pgs == FcBackward(pglist, in.xv, in.c)
         k1 == k + 1
         st0 == [pglist |-> pgs, gsum |-> gsum, xsum |-> xsum,
                 l1_decay_loss |-> Zero, l2_decay_loss |-> Zero, err |-> "none"]
         st == IF IsUpdateCall(k1, opt.batch_size) THEN UpdateStep(opt, st0) ELSE st0
     IN  /\ k' = k1
         /\ pglist' = st.pglist
         /\ gsum' = st.gsum
         /\ xsum' = st.xsum
         /\ afterBackward' = pgs
         /\ trainRet' = IF st.err # "none" THEN [status |-> st.err]
                         ELSE TrainReturn(st, in.loss)
  /\ ncalls' = ncalls + 1
  /\ UNCHANGED opt

\* The network's layers are replaced (Net.makeLayers or Net.fromJSON on the
\* net the Trainer holds): fresh parameter and gradient buffers.
Rebuild(net) ==
  /\ net # pglist
  /\ pglist' = net
  /\ UNCHANGED <<opt, k, gsum, xsum, ncalls, afterBackward, trainRet>>

TrainerInit ==
  /\ opt \in TrainerOptions
  /\ k = 0
  /\ gsum = <<>>
  /\ xsum = <<>>
  /\ pglist \in Networks
  /\ ncalls = 0
  /\ afterBackward = <<>>
  /\ trainRet = [status |-> "none"]
  /\ layers = <<>>
  /\ makeRet = "none"
  /\ madeFrom = [defs |-> <<>>, new_defs |-> <<>>, old |-> <<>>]
  /\ console = <<>>
  /\ acts = <<>>
  /\ calls = <<>>
  /\ netRet = [fn |-> "none"]
  /\ vol = [sx |-> 0, sy |-> 0, depth |-> 0, w |-> <<>>, dw |-> <<>>]
  /\ layer = [layer_type |-> "none"]
  /\ volRet = [op |-> "none"]
  /\ volOps = 0
  /\ MoreIdle

TrainerNext ==
  \/ \E in \in TrainInputs : Train(in) /\ UNCHANGED <<netVars, passVars, volVars, moreVars>>
  \/ \E net \in Networks : Rebuild(net) /\ UNCHANGED <<netVars, passVars, volVars, moreVars>>

SpecTrainer == TrainerInit /\ [][TrainerNext]_vars

\* ---------------------------------------------------------- layer classes

\* typeof opt[f] !== 'undefined' ? opt[f] : dflt
GetOpt(o, f, dflt) == IF f \in DOMAIN o THEN o[f] ELSE dflt

\* The quotient plus 1 cut towards zero, as | 0 cuts it.
OutSizeTruncated(in, pad, f, stride) == Quot(in + pad * 2 - f + stride, stride)

\* Math.floor((in + pad * 2 - f) / stride + 1): the floor of the rational
\* (in + pad*2 - f + stride)/stride; \div rounds down for stride > 0.
OutSize(in, pad, f, stride) == (in + pad * 2 - f + stride) \div stride

\* new ConvLayer(o): the fields the constructor sets (the filters are
\* out_depth Vols of sx*sy*in_depth random weights, the biases one Vol).
ConvLayer(o) ==
  LET sy == GetOpt(o, "sy", o.sx)
      stride == GetOpt(o, "stride", 1)
      pad == GetOpt(o, "pad", 0)
  IN  [layer_type |-> "conv", opt |-> o,
       out_depth |-> o.filters, sx |-> o.sx, sy |-> sy,
       in_depth |-> o.in_depth, in_sx |-> o.in_sx, in_sy |-> o.in_sy,
       stride |-> stride, pad |-> pad,
       l1_decay_mul |-> GetOpt(o, "l1_decay_mul", Zero),
       l2_decay_mul |-> GetOpt(o, "l2_decay_mul", One),
       out_sx |-> OutSize(o.in_sx, pad, o.sx, stride),
       out_sy |-> OutSize(o.in_sy, pad, sy, stride),
       bias |-> GetOpt(o, "bias_pref", Zero)]

\* new PoolLayer(o)
PoolLayer(o) ==
  LET sy == GetOpt(o, "sy", o.sx)
      stride == GetOpt(o, "stride", 2)
      pad == GetOpt(o, "pad", 0)
  IN  [layer_type |-> "pool", opt |-> o,
       sx |-> o.sx, sy |-> sy,
       in_depth |-> o.in_depth, in_sx |-> o.in_sx, in_sy |-> o.in_sy,
       stride |-> stride, pad |-> pad,
       out_depth |-> o.in_depth,
       out_sx |-> OutSize(o.in_sx, pad, o.sx, stride),
       out_sy |-> OutSize(o.in_sy, pad, sy, stride)]

\* new FullyConnLayer(o)
FullyConnLayer(o) ==
  [layer_type |-> "fc", opt |-> o,
   out_depth |-> IF "num_neurons" \in DOMAIN o THEN o.num_neurons ELSE o.filters,
   l1_decay_mul |-> GetOpt(o, "l1_decay_mul", Zero),
   l2_decay_mul |-> GetOpt(o, "l2_decay_mul", One),
   num_inputs |-> o.in_sx * o.in_sy * o.in_depth,
   out_sx |-> 1, out_sy |-> 1,
   bias |-> GetOpt(o, "bias_pref", Zero)]

\* The layer classes kept outside these files.  The input layer passes its
\* declared volume on; a nonlinearity, dropout or normalization layer keeps
\* the shape of its input; a loss layer gives one value per input.
InputLayer(o) ==
  [layer_type |-> "input", opt |-> o,
   out_sx |-> o.out_sx, out_sy |-> o.out_sy, out_depth |-> o.out_depth]

SameShapeLayer(o) ==
  [layer_type |-> o.type, opt |-> o,
   out_sx |-> o.in_sx, out_sy |-> o.in_sy, out_depth |-> o.in_depth]

LossLayer(o) ==
  [layer_type |-> o.type, opt |-> o,
   num_inputs |-> o.in_sx * o.in_sy * o.in_depth,
   out_sx |-> 1, out_sy |-> 1, out_depth |-> o.in_sx * o.in_sy * o.in_depth]

\* The effect of a for loop on acc: the body named tag, run for s[j],
\* s[j+1], ... with the loop's surrounding variables in ctx.
RECURSIVE FoldLeft(_, _, _, _, _)

\* The same body reading the filter with fx and fy exchanged.
ConvForwardTapTransposed(ctx, a, t) ==
  LET f == ctx.f
      V == ctx.V
      oy == ctx.y + t[1]
      ox == ctx.x + t[2]
  IN  IF oy >= 0 /\ oy < V.sy /\ ox >= 0 /\ ox < V.sx
      THEN Add(a, Mul(ReadF64(f.w, ((f.sy * t[2]) + t[1]) * f.depth + t[3] + 1),
                      ReadF64(V.w, ((V.sx * oy) + ox) * V.depth + t[3] + 1)))
      ELSE a


\* ConvLayer.forward, innermost body: a += f.w[..] * V.w[..] where the tap
\* t = <<fy, fx, fd>> falls inside V.
ConvForwardTap(ctx, a, t) ==
  LET f == ctx.f
      V == ctx.V
      oy == ctx.y + t[1]
      ox == ctx.x + t[2]
  IN  IF oy >= 0 /\ oy < V.sy /\ ox >= 0 /\ ox < V.sx
      THEN Add(a, Mul(ReadF64(f.w, ((f.sx * t[1]) + t[2]) * f.depth + t[3] + 1),
                      ReadF64(V.w, ((V.sx * oy) + ox) * V.depth + t[3] + 1)))
      ELSE a

\* ConvLayer.forward, body for the output cell c = <<d, ay, ax>>.
ConvForwardCell(ctx, A, c) ==
  LET L == ctx.L
      f == L.filters[c[1] + 1]
      a == FoldLeft("ConvForwardTap",
                    [f |-> f, V |-> ctx.V,
                     x |-> -L.pad + c[3] * L.stride, y |-> -L.pad + c[2] * L.stride],
                    Zero, Loop3(f.sy, f.sx, f.depth), 1)
  IN  Vol_set(A, c[3], c[2], c[1], Add(a, ReadF64(L.biases.w, c[1] + 1)))

\* ConvLayer.forward(V): the Vol it returns and keeps as out_act.
ConvLayer_forward(L, V) ==
  FoldLeft("ConvForwardCell", [L |-> L, V |-> V],
           VolOf(L.out_sx, L.out_sy, L.out_depth, Zero),
           Loop3(L.out_depth, L.out_sy, L.out_sx), 1)

\* The length of the gradient array backward gives its input Vol, one too
\* few.
InputGradLengthShort(V) == Len(V.w) - 1

\* V.dw = global.zeros(V.w.length): the length of the array backward gives
\* its input Vol.
InputGradLength(V) == Len(V.w)

\* The same body storing the input gradient with = instead of +=.
ConvBackwardTapAssigned(ctx, R, t) ==
  LET f == ctx.f
      V == ctx.V
      oy == ctx.y + t[1]
      ox == ctx.x + t[2]
      ix1 == ((V.sx * oy) + ox) * V.depth + t[3] + 1
      ix2 == ((f.sx * t[1]) + t[2]) * f.depth + t[3] + 1
  IN  IF oy >= 0 /\ oy < V.sy /\ ox >= 0 /\ ox < V.sx
      THEN [fdw |-> WriteF64(R.fdw, ix2,
                      Add(ReadF64(R.fdw, ix2), Mul(ReadF64(V.w, ix1), ctx.chain_grad))),
            Vdw |-> WriteF64(R.Vdw, ix1, Mul(ReadF64(f.w, ix2), ctx.chain_grad))]
      ELSE R


\* ConvLayer.backward, innermost body: f.dw[ix2] += V.w[ix1]*chain_grad and
\* V.dw[ix1] += f.w[ix2]*chain_grad.
ConvBackwardTap(ctx, R, t) ==
  LET f == ctx.f
      V == ctx.V
      oy == ctx.y + t[1]
      ox == ctx.x + t[2]
      ix1 == ((V.sx * oy) + ox) * V.depth + t[3] + 1
      ix2 == ((f.sx * t[1]) + t[2]) * f.depth + t[3] + 1
  IN  IF oy >= 0 /\ oy < V.sy /\ ox >= 0 /\ ox < V.sx
      THEN [fdw |-> WriteF64(R.fdw, ix2,
                      Add(ReadF64(R.fdw, ix2), Mul(ReadF64(V.w, ix1), ctx.chain_grad))),
            Vdw |-> WriteF64(R.Vdw, ix1,
                      Add(ReadF64(R.Vdw, ix1), Mul(ReadF64(f.w, ix2), ctx.chain_grad)))]
      ELSE R

\* ConvLayer.backward, body for the output cell c = <<d, ay, ax>>.
ConvBackwardCell(ctx, S, c) ==
  LET L == ctx.L
      f == L.filters[c[1] + 1]
      chain_grad == Vol_get_grad(L.out_act, c[3], c[2], c[1])
      R == FoldLeft("ConvBackwardTap",
                    [f |-> f, V |-> ctx.V, chain_grad |-> chain_grad,
                     x |-> -L.pad + c[3] * L.stride, y |-> -L.pad + c[2] * L.stride],
                    [fdw |-> S.filters[c[1] + 1].dw, Vdw |-> S.V.dw],
                    Loop3(f.sy, f.sx, f.depth), 1)
  IN  [V |-> [S.V EXCEPT !.dw = R.Vdw],
       filters |-> [S.filters EXCEPT ![c[1] + 1].dw = R.fdw],
       biases |-> [S.biases EXCEPT !.dw =
                     WriteF64(@, c[1] + 1, Add(ReadF64(@, c[1] + 1), chain_grad))]]

\* ConvLayer.backward() with in_act V: what it leaves in V, the filters and
\* the biases.
ConvLayer_backward(L, V) ==
  FoldLeft("ConvBackwardCell", [L |-> L, V |-> V],
           [V |-> [V EXCEPT !.dw = zeros(InputGradLength(V))],
            filters |-> L.filters, biases |-> L.biases],
           Loop3(L.out_depth, L.out_sy, L.out_sx), 1)

\* FullyConnLayer.forward, inner body: a += Vw[d] * wi[d].
FcForwardTerm(ctx, a, t) ==
  Add(a, Mul(ReadF64(ctx.V.w, t[1] + 1), ReadF64(ctx.wi, t[1] + 1)))

\* FullyConnLayer.forward, body for neuron i = c[1].
FcForwardNeuron(ctx, A, c) ==
  LET L == ctx.L
      a == FoldLeft("FcForwardTerm", [V |-> ctx.V, wi |-> L.filters[c[1] + 1].w],
                    Zero, Loop3(L.num_inputs, 1, 1), 1)
  IN  [A EXCEPT !.w = WriteF64(@, c[1] + 1, Add(a, ReadF64(L.biases.w, c[1] + 1)))]

\* FullyConnLayer.forward(V)
FullyConnLayer_forward(L, V) ==
  FoldLeft("FcForwardNeuron", [L |-> L, V |-> V],
           VolOf(1, 1, L.out_depth, Zero), Loop3(L.out_depth, 1, 1), 1)

\* FullyConnLayer.backward, inner body: V.dw[d] += tfi.w[d]*chain_grad and
\* tfi.dw[d] += V.w[d]*chain_grad.
FcBackwardTerm(ctx, R, t) ==
  LET d == t[1] + 1
  IN  [Vdw |-> WriteF64(R.Vdw, d,
                 Add(ReadF64(R.Vdw, d), Mul(ReadF64(ctx.tfi.w, d), ctx.chain_grad))),
       fdw |-> WriteF64(R.fdw, d,
                 Add(ReadF64(R.fdw, d), Mul(ReadF64(ctx.V.w, d), ctx.chain_grad)))]

\* FullyConnLayer.backward, body for neuron i = c[1].
FcBackwardNeuron(ctx, S, c) ==
  LET L == ctx.L
      chain_grad == ReadF64(L.out_act.dw, c[1] + 1)
      R == FoldLeft("FcBackwardTerm",
                    [V |-> ctx.V, tfi |-> L.filters[c[1] + 1], chain_grad |-> chain_grad],
                    [Vdw |-> S.V.dw, fdw |-> S.filters[c[1] + 1].dw],
                    Loop3(L.num_inputs, 1, 1), 1)
  IN  [V |-> [S.V EXCEPT !.dw = R.Vdw],
       filters |-> [S.filters EXCEPT ![c[1] + 1].dw = R.fdw],
       biases |-> [S.biases EXCEPT !.dw =
                     WriteF64(@, c[1] + 1, Add(ReadF64(@, c[1] + 1), chain_grad))]]

\* FullyConnLayer.backward() with in_act V.
FullyConnLayer_backward(L, V) ==
  FoldLeft("FcBackwardNeuron", [L |-> L, V |-> V],
           [V |-> [V EXCEPT !.dw = zeros(InputGradLength(V))],
            filters |-> L.filters, biases |-> L.biases],
           Loop3(L.out_depth, 1, 1), 1)

\* a = -99999, the value a pooling window starts from.
PoolFloor == Num(-99999 * Scale)

\* PoolLayer.forward, innermost body for the tap t = <<fx, fy, 0>>: keep
\* the value and place of a strictly greater entry inside V.
PoolForwardTap(ctx, W, t) ==
  LET V == ctx.V
      ox == ctx.x + t[1]
      oy == ctx.y + t[2]
  IN  IF oy >= 0 /\ oy < V.sy /\ ox >= 0 /\ ox < V.sx
         /\ Gt(Vol_get(V, ox, oy, ctx.d), W.a)
      THEN [a |-> Vol_get(V, ox, oy, ctx.d), winx |-> ox, winy |-> oy]
      ELSE W

\* The same body recording the winner at the output's flat index instead of
\* the running counter n.
PoolForwardCellFlat(ctx, S, c) ==
  LET L == ctx.L
      W == FoldLeft("PoolForwardTap",
                    [V |-> ctx.V, d |-> c[1],
                     x |-> -L.pad + c[2] * L.stride, y |-> -L.pad + c[3] * L.stride],
                    [a |-> PoolFloor, winx |-> -1, winy |-> -1],
                    Loop3(L.sx, L.sy, 1), 1)
      at == Ix(S.A, c[2], c[3], c[1]) + 1
  IN  [A |-> Vol_set(S.A, c[2], c[3], c[1], W.a),
       switchx |-> IF at \in 1..Len(S.switchx)
                   THEN [S.switchx EXCEPT ![at] = W.winx] ELSE S.switchx,
       switchy |-> IF at \in 1..Len(S.switchy)
                   THEN [S.switchy EXCEPT ![at] = W.winy] ELSE S.switchy,
       n |-> S.n + 1]

\* PoolLayer.forward, body for the output cell c = <<d, ax, ay>>, the n-th
\* visited.
PoolForwardCell(ctx, S, c) ==
  LET L == ctx.L
      W == FoldLeft("PoolForwardTap",
                    [V |-> ctx.V, d |-> c[1],
                     x |-> -L.pad + c[2] * L.stride, y |-> -L.pad + c[3] * L.stride],
                    [a |-> PoolFloor, winx |-> -1, winy |-> -1],
                    Loop3(L.sx, L.sy, 1), 1)
  IN  [A |-> Vol_set(S.A, c[2], c[3], c[1], W.a),
       switchx |-> IF S.n + 1 \in 1..Len(S.switchx)
                   THEN [S.switchx EXCEPT ![S.n + 1] = W.winx] ELSE S.switchx,
       switchy |-> IF S.n + 1 \in 1..Len(S.switchy)
                   THEN [S.switchy EXCEPT ![S.n + 1] = W.winy] ELSE S.switchy,
       n |-> S.n + 1]

\* PoolLayer.forward(V): the Vol it returns and the switches it stores.
PoolLayer_forward(L, V) ==
  FoldLeft("PoolForwardCell", [L |-> L, V |-> V],
           [A |-> VolOf(L.out_sx, L.out_sy, L.out_depth, Zero),
            switchx |-> L.switchx, switchy |-> L.switchy, n |-> 0],
           Loop3(L.out_depth, L.out_sx, L.out_sy), 1)

\* The same body writing the gradient with set_grad instead of add_grad.
PoolBackwardCellSet(ctx, S, c) ==
  LET L == ctx.L
      chain_grad == Vol_get_grad(L.out_act, c[2], c[3], c[1])
  IN  [V |-> Vol_set_grad(S.V, L.switchx[S.n + 1], L.switchy[S.n + 1], c[1], chain_grad),
       n |-> S.n + 1]

\* PoolLayer.backward, body for the output cell c = <<d, ax, ay>>, the n-th
\* visited.
PoolBackwardCell(ctx, S, c) ==
  LET L == ctx.L
      chain_grad == Vol_get_grad(L.out_act, c[2], c[3], c[1])
  IN  [V |-> Vol_add_grad(S.V, L.switchx[S.n + 1], L.switchy[S.n + 1], c[1], chain_grad),
       n |-> S.n + 1]

\* PoolLayer.backward() with in_act V.
PoolLayer_backward(L, V) ==
  FoldLeft("PoolBackwardCell", [L |-> L],
           [V |-> [V EXCEPT !.dw = zeros(InputGradLength(V))], n |-> 0],
           Loop3(L.out_depth, L.out_sx, L.out_sy), 1)

\* The body of the loop named tag.
LoopBody(tag, ctx, acc, x) ==
  CASE tag = "ConvForwardTap" -> ConvForwardTap(ctx, acc, x)
    [] tag = "ConvForwardCell" -> ConvForwardCell(ctx, acc, x)
    [] tag = "ConvBackwardTap" -> ConvBackwardTap(ctx, acc, x)
    [] tag = "ConvBackwardCell" -> ConvBackwardCell(ctx, acc, x)
    [] tag = "FcForwardTerm" -> FcForwardTerm(ctx, acc, x)
    [] tag = "FcForwardNeuron" -> FcForwardNeuron(ctx, acc, x)
    [] tag = "FcBackwardTerm" -> FcBackwardTerm(ctx, acc, x)
    [] tag = "FcBackwardNeuron" -> FcBackwardNeuron(ctx, acc, x)
    [] tag = "PoolForwardTap" -> PoolForwardTap(ctx, acc, x)
    [] tag = "PoolForwardCell" -> PoolForwardCell(ctx, acc, x)
    [] tag = "PoolBackwardCell" -> PoolBackwardCell(ctx, acc, x)

FoldLeft(tag, ctx, acc, s, j) ==
  IF j > Len(s) THEN acc
  ELSE FoldLeft(tag, ctx, LoopBody(tag, ctx, acc, s[j]), s, j + 1)

\* -------------------------------------------------------- Net.makeLayers

\* The type tags the switch of makeLayers has a case for.
LayerTypes ==
  {"fc", "lrn", "dropout", "input", "softmax", "regression", "conv", "pool",
   "relu", "sigmoid", "tanh", "maxout", "svm"}

\* The case of the switch taken for a recognized tag.
Construct(def) ==
  CASE def.type = "fc" -> FullyConnLayer(def)
    [] def.type = "conv" -> ConvLayer(def)
    [] def.type = "pool" -> PoolLayer(def)
    [] def.type = "input" -> InputLayer(def)
    [] def.type \in {"softmax", "regression", "svm"} -> LossLayer(def)
    [] OTHER -> SameShapeLayer(def)

\* The dropout definition appended without the drop_prob.
AppendedDropoutBare(def) ==
  IF "drop_prob" \in DOMAIN def /\ def.type # "dropout"
  THEN <<[type |-> "dropout"]>>
  ELSE <<>>

\* if(typeof def.drop_prob !== 'undefined' && def.type !== 'dropout')
\*   new_defs.push({type:'dropout', drop_prob: def.drop_prob})
AppendedDropout(def) ==
  IF "drop_prob" \in DOMAIN def /\ def.type # "dropout"
  THEN <<[type |-> "dropout", drop_prob |-> def.drop_prob]>>
  ELSE <<>>

\* An inserted fc definition of a single neuron.
InsertedFcOne(def, f) == [type |-> "fc", num_neurons |-> 1]

\* {type:'fc', num_neurons: def[f]}: the definition desugar inserts before a
\* loss definition; the field is absent when def[f] is undefined.
InsertedFc(def, f) ==
  IF f \in DOMAIN def THEN [type |-> "fc", num_neurons |-> def[f]] ELSE [type |-> "fc"]


\* What desugar pushes for one definition, and what it logs.
DesugarOne(def) ==
  LET classifier ==
        IF def.type = "softmax" \/ def.type = "svm"
        THEN <<InsertedFc(def, "num_classes")>>
        ELSE <<>>
      regression ==
        IF def.type = "regression"
        THEN <<InsertedFc(def, "num_neurons")>>
        ELSE <<>>
      biased ==
        IF (def.type = "fc" \/ def.type = "conv") /\ "bias_pref" \notin DOMAIN def
        THEN [f \in DOMAIN def \cup {"bias_pref"} |->
                IF f # "bias_pref" THEN def[f]
                ELSE IF "activation" \in DOMAIN def /\ def.activation = "relu"
                     THEN Num(Scale \div 10) ELSE Zero]
        ELSE def
      hasAct == "activation" \in DOMAIN def
      activation ==
        IF ~hasAct THEN <<>>
        ELSE IF def.activation \in {"relu", "sigmoid", "tanh"}
             THEN <<[type |-> def.activation]>>
        ELSE IF def.activation = "maxout"
             THEN <<IF "group_size" \in DOMAIN def
                    THEN [type |-> "maxout", group_size |-> def.group_size]
                    ELSE [type |-> "maxout"]>>
        ELSE <<>>
      logged ==
        IF hasAct /\ def.activation \notin {"relu", "sigmoid", "tanh", "maxout"}
        THEN <<"ERROR unsupported activation">> ELSE <<>>
      dropout == AppendedDropout(def)
  IN  [defs |-> classifier \o regression \o <<biased>> \o activation \o dropout,
       console |-> logged]

\* desugar(): the loop over defs from definition i on.
RECURSIVE Desugar(_, _)
Desugar(defs, i) ==
  IF i > Len(defs) THEN [defs |-> <<>>, console |-> <<>>]
  ELSE LET one == DesugarOne(defs[i])
           rest == Desugar(defs, i + 1)
       IN  [defs |-> one.defs \o rest.defs, console |-> one.console \o rest.console]

\* def.in_sx = prev.out_sx; def.in_sy = prev.out_sy; def.in_depth = prev.out_depth
Wire(def, prev) ==
  [f \in DOMAIN def \cup {"in_sx", "in_sy", "in_depth"} |->
     CASE f = "in_sx" -> prev.out_sx
       [] f = "in_sy" -> prev.out_sy
       [] f = "in_depth" -> prev.out_depth
       [] OTHER -> def[f]]

\* The loop that creates the layers, from definition i on, with the layers
\* ls pushed so far.  this.layers[i-1] of a list too short is undefined, and
\* reading its out_sx throws a TypeError.
RECURSIVE CreateLayers(_, _, _, _)
CreateLayers(defs, i, ls, log) ==
  IF i > Len(defs) THEN [status |-> "ok", layers |-> ls, console |-> log]
  ELSE IF i > 1 /\ i - 1 > Len(ls)
       THEN [status |-> "TypeError", layers |-> ls, console |-> log]
       ELSE LET def == IF i > 1 THEN Wire(defs[i], ls[i - 1]) ELSE defs[i]
            IN  IF def.type \in LayerTypes
                THEN CreateLayers(defs, i + 1, Append(ls, Construct(def)), log)
                ELSE CreateLayers(defs, i + 1, ls,
                                  Append(log, "ERROR: UNRECOGNIZED LAYER TYPE"))

\* The length check off by one: a lone input definition passes.
ChecksPassLoneInput(defs) == Len(defs) >= 1 /\ defs[1].type = "input"

\* assert(defs.length >= 2, ...); assert(defs[0].type === 'input', ...)
ChecksPass(defs) == Len(defs) >= 2 /\ defs[1].type = "input"

\* makeLayers(defs) on a net whose layers are old: how it ends, the layers
\* it leaves, the desugared list, and the messages logged.
MakeLayersResult(old, defs) ==
  IF ~ChecksPass(defs)
  THEN [status |-> "Error", layers |-> old, new_defs |-> <<>>, console |-> <<>>]
  ELSE LET d == Desugar(defs, 1)
           r == CreateLayers(d.defs, 1, <<>>, d.console)
       IN  [status |-> r.status, layers |-> r.layers, new_defs |-> d.defs,
            console |-> r.console]

\* The definitions the lists are drawn from.
InputDef == [type |-> "input", out_sx |-> 4, out_sy |-> 4, out_depth |-> 1]
DefUniverse ==
  {InputDef,
   [type |-> "conv", sx |-> 3, filters |-> 2, stride |-> 1, activation |-> "relu"],
   [type |-> "pool", sx |-> 2, stride |-> 2],
   [type |-> "fc", num_neurons |-> 2, activation |-> "softplus"],
   [type |-> "fc", num_neurons |-> 3, activation |-> "tanh", drop_prob |-> Num(Scale \div 2)],
   [type |-> "fc", num_neurons |-> 2, activation |-> "softplus", drop_prob |-> Num(Scale \div 4)],
   [type |-> "softmax", num_classes |-> 2],
   [type |-> "svm", num_classes |-> 2],
   [type |-> "regression", num_neurons |-> 1],
   [type |-> "dropout", drop_prob |-> Num(Scale \div 2)],
   [type |-> "capsule"]}

DefLists == UNION {[1..n -> DefUniverse] : n \in 0..MaxDefs}

\* A network built earlier: input, fc(2), softmax(2).
BuiltNet ==
  MakeLayersResult(<<>>, <<InputDef, [type |-> "softmax", num_classes |-> 2]>>).layers

\* net.makeLayers(defs)
MakeLayers(defs) ==
  /\ makeRet = "none"
  /\ LET r == MakeLayersResult(layers, defs)
     IN  /\ layers' = r.layers
         /\ makeRet' = r.status
         /\ madeFrom' = [defs |-> defs, new_defs |-> r.new_defs, old |-> layers]
         /\ console' = console \o r.console

TrainerIdle ==
  /\ opt = [method |-> "sgd"]
  /\ k = 0
  /\ gsum = <<>>
  /\ xsum = <<>>
  /\ pglist = <<>>
  /\ ncalls = 0
  /\ afterBackward = <<>>
  /\ trainRet = [status |-> "none"]

MakeInit ==
  /\ layers \in {<<>>, BuiltNet}
  /\ makeRet = "none"
  /\ madeFrom = [defs |-> <<>>, new_defs |-> <<>>, old |-> <<>>]
  /\ console = <<>>
  /\ acts = <<>>
  /\ calls = <<>>
  /\ netRet = [fn |-> "none"]
  /\ vol = [sx |-> 0, sy |-> 0, depth |-> 0, w |-> <<>>, dw |-> <<>>]
  /\ layer = [layer_type |-> "none"]
  /\ volRet = [op |-> "none"]
  /\ volOps = 0
  /\ MoreIdle
  /\ TrainerIdle

MakeNext ==
  \E defs \in DefLists : MakeLayers(defs) /\ UNCHANGED <<trainerVars, passVars, volVars, moreVars>>

SpecMake == MakeInit /\ [][MakeNext]_vars

\* ------------------------------------------- Net.forward and Net.backward

\* The Vol a layer's forward returns: a new one, made by that layer from
\* its input.
LayerForward(i, V) == [layer |-> i, of |-> V]

\* The input every layer but the first is given: the original input Vol
\* again.
NextInputOriginal(act, V) == V

\* act = this.layers[i].forward(act, is_training): the input given to every
\* layer but the first.
NextInput(act, V) == act

\* if(typeof(is_training) === 'undefined') is_training = false
DefaultTraining(t) == IF t = "undefined" THEN "false" ELSE t

\* The calls of Net.forward from layer i on, act being the output so far.
RECURSIVE ForwardFrom(_, _, _, _, _, _)
ForwardFrom(n, i, act, V, t, log) ==
  IF i > n THEN [ret |-> act, calls |-> log]
  ELSE LET in == IF i = 1 THEN V ELSE NextInput(act, V)
           out == LayerForward(i, in)
       IN  ForwardFrom(n, i + 1, out, V, t,
                       Append(log, [layer |-> i, fn |-> "forward", arg |-> in,
                                    is_training |-> t, ret |-> out]))

\* The layers before the last, first to last.
PrecedingAscending(n) == [j \in 1..(n - 1) |-> j]

\* for(var i=N-2;i>=0;i--): the layers before the last, in the order visited.
PrecedingOrder(n) == [j \in 1..(n - 1) |-> n - j]

\* The calls of Net.backward(y), the last layer's backward returning loss.
BackwardCalls(n, y, loss) ==
  <<[layer |-> n, fn |-> "backward", arg |-> y, ret |-> loss]>>
    \o [j \in 1..(n - 1) |-> [layer |-> PrecedingOrder(n)[j], fn |-> "backward"]]

NetInputVols == {[input |-> v] : v \in 1..MaxVols}
TrainingArgs == {"undefined", "true", "false"}
Targets == 0..MaxTarget
LossValues == {Zero, Num(Scale \div 2), Num(3 * Scale)}

\* net.forward(V, is_training), t being the second argument as passed.
Forward(V, t) ==
  /\ Len(layers) > 0
  /\ LET r == ForwardFrom(Len(layers), 1, V, V, DefaultTraining(t), <<>>)
     IN  /\ calls' = r.calls
         /\ netRet' = [fn |-> "forward", V |-> V, is_training |-> t, ret |-> r.ret]
         /\ acts' = [i \in 1..Len(layers) |->
                       [in_act |-> r.calls[i].arg, out_act |-> r.calls[i].ret]]
  /\ UNCHANGED netVars

\* net.backward(y) after a forward, the loss layer returning loss.
Backward(y, loss) ==
  /\ Len(layers) > 0
  /\ acts # <<>>
  /\ calls' = BackwardCalls(Len(layers), y, loss)
  /\ netRet' = [fn |-> "backward", y |-> y, ret |-> calls'[1].ret]
  /\ UNCHANGED <<acts, netVars>>

\* The networks forward and backward run on, as makeLayers builds them.
ExampleNets ==
  {MakeLayersResult(<<>>, defs).layers :
     defs \in {<<InputDef, [type |-> "softmax", num_classes |-> 2]>>,
               <<InputDef, [type |-> "pool", sx |-> 2, stride |-> 2],
                 [type |-> "regression", num_neurons |-> 1]>>,
               <<InputDef,
                 [type |-> "conv", sx |-> 3, filters |-> 2, stride |-> 1,
                  activation |-> "relu"],
                 [type |-> "pool", sx |-> 2, stride |-> 2],
                 [type |-> "svm", num_classes |-> 2]>>}}

PassIdle ==
  /\ acts = <<>>
  /\ calls = <<>>
  /\ netRet = [fn |-> "none"]

NetInit ==
  /\ layers \in ExampleNets
  /\ makeRet = "ok"
  /\ madeFrom = [defs |-> <<>>, new_defs |-> <<>>, old |-> <<>>]
  /\ console = <<>>
  /\ PassIdle
  /\ vol = [sx |-> 0, sy |-> 0, depth |-> 0, w |-> <<>>, dw |-> <<>>]
  /\ layer = [layer_type |-> "none"]
  /\ volRet = [op |-> "none"]
  /\ volOps = 0
  /\ MoreIdle
  /\ TrainerIdle

NetNext ==
  \/ \E V \in NetInputVols, t \in TrainingArgs : Forward(V, t) /\ UNCHANGED <<trainerVars, volVars, moreVars>>
  \/ \E y \in Targets, loss \in LossValues : Backward(y, loss) /\ UNCHANGED <<trainerVars, volVars, moreVars>>

SpecNet == NetInit /\ [][NetNext]_vars

\* ------------------------------------------- operations on one Vol object

\* A conv or fc layer object: the fields its constructor computes, its
\* filters and biases, and what forward stores.  in_act is the Vol held in
\* vol once forwarded is TRUE; out_act is undefined until then.
LayerObject(L, filters, biases) ==
  L @@ [filters |-> filters, biases |-> biases, forwarded |-> FALSE,
        out_act |-> VolOf(0, 0, 0, Zero)]

\* A pooling layer object: no parameters; switchx and switchy are zeros of
\* the output's size.
PoolObject(L) ==
  L @@ [forwarded |-> FALSE, out_act |-> VolOf(0, 0, 0, Zero),
        switchx |-> [i \in 1..(L.out_sx * L.out_sy * L.out_depth) |-> 0],
        switchy |-> [i \in 1..(L.out_sx * L.out_sy * L.out_depth) |-> 0]]

\* The layers a Vol is run through: a padded 2x2 convolution, a fully
\* connected layer of two neurons and a padded 2x2 pooling, each over a
\* 2x2x1 input, with the filter weights drawn at construction.
ExampleLayers ==
  LET in == [in_sx |-> 2, in_sy |-> 2, in_depth |-> 1]
  IN  {LayerObject(ConvLayer(in @@ [type |-> "conv", sx |-> 2, filters |-> 1, pad |-> 1]),
                   <<VolRandom(2, 2, 1, <<One, Neg(One), Two, Zero>>)>>,
                   VolOf(1, 1, 1, Zero)),
       LayerObject(FullyConnLayer(in @@ [type |-> "fc", num_neurons |-> 2]),
                   <<VolRandom(1, 1, 4, <<One, Zero, Neg(One), Two>>),
                     VolRandom(1, 1, 4, <<Zero, Two, One, One>>)>>,
                   VolOf(1, 1, 2, Zero)),
       PoolObject(PoolLayer(in @@ [type |-> "pool", sx |-> 2, pad |-> 1]))}

\* The Vols a behaviour starts from, as the constructor makes them.
InitVols ==
  {VolFromList(<<>>), VolFromList(<<One, Two>>),
   VolOf(2, 2, 1, One), VolOf(1, 2, 2, Zero),
   VolRandom(2, 2, 1, <<Neg(One), Two, Zero, One>>),
   VolRandom(2, 1, 2, <<Two, Two, Neg(One), Zero>>)}

\* The Vols given to addFrom and addFromScaled.
OtherVols == {VolFromList(<<Two>>), VolOf(2, 2, 1, One)}

\* The objects given to fromJSON: a saved Vol, and one whose w is shorter
\* than its dimensions say.
JsonInputs ==
  {Vol_toJSON(VolOf(1, 2, 2, One)),
   [sx |-> 2, sy |-> 1, depth |-> 1, w |-> <<Two, One>>],
   [sx |-> 1, sy |-> 1, depth |-> 3, w |-> <<One>>]}

WriteValue == Two
InRange(V) == (0..(V.sx - 1)) \X (0..(V.sy - 1)) \X (0..(V.depth - 1))

Step(op) ==
  /\ volOps < MaxVolOps
  /\ volOps' = volOps + 1
  /\ volRet' = op

Get(c) ==
  /\ Step([op |-> "get", value |-> Vol_get(vol, c[1], c[2], c[3])])
  /\ UNCHANGED <<vol, layer>>

GetGrad(c) ==
  /\ Step([op |-> "get_grad", value |-> Vol_get_grad(vol, c[1], c[2], c[3])])
  /\ UNCHANGED <<vol, layer>>

Set(c, v) ==
  /\ Step([op |-> "set"])
  /\ vol' = Vol_set(vol, c[1], c[2], c[3], v)
  /\ UNCHANGED layer

AddAt(c, v) ==
  /\ Step([op |-> "add"])
  /\ vol' = Vol_add(vol, c[1], c[2], c[3], v)
  /\ UNCHANGED layer

SetGrad(c, v) ==
  /\ Step([op |-> "set_grad"])
  /\ vol' = Vol_set_grad(vol, c[1], c[2], c[3], v)
  /\ UNCHANGED layer

AddGrad(c, v) ==
  /\ Step([op |-> "add_grad"])
  /\ vol' = Vol_add_grad(vol, c[1], c[2], c[3], v)
  /\ UNCHANGED layer

Clone ==
  /\ Step([op |-> "clone", vol |-> Vol_clone(vol)])
  /\ UNCHANGED <<vol, layer>>

CloneAndZero ==
  /\ Step([op |-> "cloneAndZero", vol |-> Vol_cloneAndZero(vol)])
  /\ UNCHANGED <<vol, layer>>

AddFrom(V) ==
  /\ Step([op |-> "addFrom"])
  /\ vol' = Vol_addFrom(vol, V)
  /\ UNCHANGED layer

AddFromScaled(V, a) ==
  /\ Step([op |-> "addFromScaled"])
  /\ vol' = Vol_addFromScaled(vol, V, a)
  /\ UNCHANGED layer

SetConst(a) ==
  /\ Step([op |-> "setConst"])
  /\ vol' = Vol_setConst(vol, a)
  /\ UNCHANGED layer

FromJSON(json) ==
  /\ Step([op |-> "fromJSON"])
  /\ vol' = Vol_fromJSON(json)
  /\ UNCHANGED layer

\* layer.forward(vol): in_act becomes vol, out_act the Vol returned.
LayerForwardVol ==
  /\ LET P == PoolLayer_forward(layer, vol)
         A == CASE layer.layer_type = "conv" -> ConvLayer_forward(layer, vol)
                [] layer.layer_type = "fc" -> FullyConnLayer_forward(layer, vol)
                [] layer.layer_type = "pool" -> P.A
     IN  /\ Step([op |-> "forward", vol |-> A])
         /\ layer' = IF layer.layer_type = "pool"
                     THEN [layer EXCEPT !.forwarded = TRUE, !.out_act = A,
                                        !.switchx = P.switchx, !.switchy = P.switchy]
                     ELSE [layer EXCEPT !.forwarded = TRUE, !.out_act = A]
  /\ UNCHANGED vol

\* The layer above leaves its input gradient in out_act.dw.
GradFromAbove(g) ==
  /\ layer.forwarded
  /\ Step([op |-> "gradFromAbove"])
  /\ layer' = [layer EXCEPT !.out_act.dw = [i \in 1..Len(layer.out_act.w) |-> g]]
  /\ UNCHANGED vol

\* layer.backward(): a TypeError while in_act is undefined.
LayerBackwardVol ==
  IF ~layer.forwarded
  THEN /\ Step([op |-> "backward", threw |-> "TypeError"])
       /\ UNCHANGED <<vol, layer>>
  ELSE /\ Step([op |-> "backward"])
       /\ IF layer.layer_type = "pool"
          THEN /\ vol' = PoolLayer_backward(layer, vol).V
               /\ UNCHANGED layer
          ELSE LET R == IF layer.layer_type = "conv"
                        THEN ConvLayer_backward(layer, vol)
                        ELSE FullyConnLayer_backward(layer, vol)
               IN  /\ vol' = R.V
                   /\ layer' = [layer EXCEPT !.filters = R.filters, !.biases = R.biases]

VolInit ==
  /\ vol \in InitVols
  /\ layer \in ExampleLayers
  /\ volRet = [op |-> "none"]
  /\ volOps = 0
  /\ MoreIdle
  /\ layers = <<>>
  /\ makeRet = "none"
  /\ madeFrom = [defs |-> <<>>, new_defs |-> <<>>, old |-> <<>>]
  /\ console = <<>>
  /\ PassIdle
  /\ TrainerIdle

VolNext ==
  \/ \E c \in InRange(vol) : Get(c) /\ UNCHANGED otherVars
  \/ \E c \in InRange(vol) : GetGrad(c) /\ UNCHANGED otherVars
  \/ \E c \in InRange(vol) : Set(c, WriteValue) /\ UNCHANGED otherVars
  \/ \E c \in InRange(vol) : AddAt(c, WriteValue) /\ UNCHANGED otherVars
  \/ \E c \in InRange(vol) : SetGrad(c, WriteValue) /\ UNCHANGED otherVars
  \/ \E c \in InRange(vol) : AddGrad(c, WriteValue) /\ UNCHANGED otherVars
  \/ Clone /\ UNCHANGED otherVars
  \/ CloneAndZero /\ UNCHANGED otherVars
  \/ \E V \in OtherVols : AddFrom(V) /\ UNCHANGED otherVars
  \/ \E V \in OtherVols : AddFromScaled(V, Neg(One)) /\ UNCHANGED otherVars
  \/ SetConst(Neg(One)) /\ UNCHANGED otherVars
  \/ \E json \in JsonInputs : FromJSON(json) /\ UNCHANGED otherVars
  \/ LayerForwardVol /\ UNCHANGED otherVars
  \/ \E g \in {One, Neg(Two)} : GradFromAbove(g) /\ UNCHANGED otherVars
  \/ LayerBackwardVol /\ UNCHANGED otherVars

SpecVol == VolInit /\ [][VolNext]_vars

\* ------------------------------- Net.getPrediction, Net.getParamsAndGrads

\* p[i] >= maxv: a later entry equal to the greatest so far replaces it.
ExceedsOrEquals(a, b) == ~IsNaN(a) /\ ~IsNaN(b) /\ a.v >= b.v

\* p[i] > maxv
Exceeds(a, b) == Gt(a, b)

\* The for loop of getPrediction from entry i of p on (i counted from 1);
\* maxi is counted from 0, as returned.
RECURSIVE ArgMaxScan(_, _, _, _)
ArgMaxScan(p, i, maxv, maxi) ==
  IF i > Len(p) THEN maxi
  ELSE IF Exceeds(p[i], maxv)
       THEN ArgMaxScan(p, i + 1, p[i], i - 1)
       ELSE ArgMaxScan(p, i + 1, maxv, maxi)

\* net.getPrediction() on the layers ls, out being the last layer's out_act:
\* a TypeError where S or S.out_act is undefined, an Error from assert.
GetPredictionResult(ls, out) ==
  IF Len(ls) = 0 THEN [status |-> "TypeError", p |-> out]
  ELSE IF ls[Len(ls)].layer_type # "softmax" THEN [status |-> "Error", p |-> out]
  ELSE IF ~out.set THEN [status |-> "TypeError", p |-> out]
  ELSE [status |-> "ok", p |-> out,
        value |-> ArgMaxScan(out.w, 2, ReadF64(out.w, 1), 0)]

\* The bias group first, the filter groups after it.
BiasThenFilters(filterGroups, biasGroup) == <<biasGroup>> \o filterGroups

\* response.push of every filter group in the loop, then of the bias group.
FiltersThenBias(filterGroups, biasGroup) == filterGroups \o <<biasGroup>>

\* layer.getParamsAndGrads() of the layer at index i (from 0).  params and
\* grads are references to the w and dw arrays of the layer's Vols, named
\* here by where the Vol is kept.  A layer without parameters returns [].
LayerParamsAndGrads(L, i) ==
  IF L.layer_type \in {"conv", "fc"}
  THEN FiltersThenBias(
         [j \in 1..L.out_depth |->
            [params |-> [layer |-> i, vol |-> "filters", index |-> j - 1, field |-> "w"],
             grads |-> [layer |-> i, vol |-> "filters", index |-> j - 1, field |-> "dw"],
             l1_decay_mul |-> L.l1_decay_mul, l2_decay_mul |-> L.l2_decay_mul]],
         [params |-> [layer |-> i, vol |-> "biases", index |-> 0, field |-> "w"],
          grads |-> [layer |-> i, vol |-> "biases", index |-> 0, field |-> "dw"],
          l1_decay_mul |-> Zero, l2_decay_mul |-> Zero])
  ELSE <<>>

\* net.getParamsAndGrads(): the loop from layer i on (i counted from 1).
RECURSIVE NetParamsAndGrads(_, _, _)
NetParamsAndGrads(ls, i, response) ==
  IF i > Len(ls) THEN response
  ELSE NetParamsAndGrads(ls, i + 1, response \o LayerParamsAndGrads(ls[i], i - 1))

\* The networks queried: none built yet, and four built by makeLayers.
QueryNets ==
  {<<>>} \cup
  {MakeLayersResult(<<>>, defs).layers :
     defs \in {<<InputDef, [type |-> "softmax", num_classes |-> 3]>>,
               <<InputDef, [type |-> "softmax", num_classes |-> 2]>>,
               <<InputDef, [type |-> "fc", num_neurons |-> 2, activation |-> "tanh"],
                 [type |-> "regression", num_neurons |-> 1]>>,
               <<InputDef,
                 [type |-> "conv", sx |-> 3, filters |-> 2, stride |-> 1,
                  activation |-> "relu"],
                 [type |-> "pool", sx |-> 2, stride |-> 2],
                 [type |-> "svm", num_classes |-> 2]>>}}

\* The values a last layer leaves in its out_act.w.
OutValues == {Num(Scale \div 10), Num(Scale \div 2), Num((9 * Scale) \div 10)}

\* A forward pass leaves p in the last layer's out_act.w.
ForwardOutputs(p) ==
  /\ Len(layers) > 0
  /\ Len(p) = layers[Len(layers)].out_depth
  /\ outW' = [set |-> TRUE, w |-> p]
  /\ UNCHANGED <<predRet, responses>>

GetPrediction ==
  /\ predRet' = GetPredictionResult(layers, outW)
  /\ UNCHANGED <<outW, responses>>

GetParamsAndGrads ==
  /\ responses' = LET r == NetParamsAndGrads(layers, 1, <<>>)
                  IN  IF Len(responses) < 2 THEN Append(responses, r)
                      ELSE <<responses[2], r>>
  /\ UNCHANGED <<outW, predRet>>

QueryInit ==
  /\ layers \in QueryNets
  /\ makeRet = "ok"
  /\ madeFrom = [defs |-> <<>>, new_defs |-> <<>>, old |-> <<>>]
  /\ console = <<>>
  /\ MoreIdle
  /\ VolIdle
  /\ PassIdle
  /\ TrainerIdle

QueryRest == <<trainerVars, netVars, passVars, volVars, saved, fnIn, fnOut, pending>>

QueryNext ==
  \/ \E n \in 1..3 : \E p \in [1..n -> OutValues] : ForwardOutputs(p) /\ UNCHANGED QueryRest
  \/ GetPrediction /\ UNCHANGED QueryRest
  \/ GetParamsAndGrads /\ UNCHANGED QueryRest

SpecQuery == QueryInit /\ [][QueryNext]_vars

\* ------------------------------------------- the plain sgd update alone

\* Trainers with method sgd and momentum 0: learning_rate 0.1, l1_decay 0
\* or 0.2, l2_decay 0 or 0.1.
SgdOptions ==
  [method : {"sgd"},
   learning_rate : {Num(Scale \div 10)},
   l1_decay : {Zero, Num(Scale \div 5)},
   l2_decay : {Zero, Num(Scale \div 10)},
   batch_size : {1, 2},
   momentum : {Zero},
   ro : {Num((9 * Scale) \div 10)},
   eps : {Num(1)}]

\* One fully-connected layer of 2 inputs and 1 neuron, its weights all 0,
\* 1 or -2 and its l1_decay_mul 0 or 1.
SgdNetworks ==
  {FcGroups(2, 1, w0, l1mul) : w0 \in {Zero, One, Neg(Two)}, l1mul \in {Zero, One}}

SgdInit ==
  /\ opt \in SgdOptions
  /\ k = 0
  /\ gsum = <<>>
  /\ xsum = <<>>
  /\ pglist \in SgdNetworks
  /\ ncalls = 0
  /\ afterBackward = <<>>
  /\ trainRet = [status |-> "none"]
  /\ NetIdle
  /\ PassIdle
  /\ VolIdle
  /\ MoreIdle

SgdNext ==
  \E in \in TrainInputs : Train(in) /\ UNCHANGED <<netVars, passVars, volVars, moreVars>>

SpecSgd == SgdInit /\ [][SgdNext]_vars

\* ------------------------------------- constructing conv and pool layers

\* global.zeros(n) of a Float64Array: a negative length is a RangeError.
ZerosThrows(n) == n < 0

\* new ConvLayer(o) or new PoolLayer(o): the layer, or the error thrown.
\* PoolLayer allocates switchx and switchy with out_sx*out_sy*out_depth
\* entries; ConvLayer allocates nothing of the output's size.
ConstructLayer(o) ==
  IF o.type = "conv"
  THEN [fn |-> "construct", status |-> "ok", layer |-> ConvLayer(o)]
  ELSE LET L == PoolLayer(o)
       IN  IF ZerosThrows(L.out_sx * L.out_sy * L.out_depth)
           THEN [fn |-> "construct", status |-> "RangeError", layer |-> L]
           ELSE [fn |-> "construct", status |-> "ok", layer |-> PoolObject(L)]

\* The definitions a conv or pool layer is constructed from: input and
\* filter sizes 1..MaxSize, stride 1..MaxStride, pad 0 or 1, given in full
\* or with sy, stride and pad left to their defaults.
ShapeConfigs ==
  LET base == [type : {"conv", "pool"}, in_sx : 1..MaxSize, in_sy : 1..MaxSize,
               in_depth : {1}, filters : {2}, sx : 1..MaxSize]
  IN  base \cup
      {b @@ [sy |-> r.sy, stride |-> r.stride, pad |-> r.pad] :
         b \in base, r \in [sy : 1..MaxSize, stride : 1..MaxStride, pad : {0, 1}]}

Construction ==
  /\ fnOut.fn = "none"
  /\ fnOut' = ConstructLayer(fnIn)
  /\ UNCHANGED fnIn

ShapeInit ==
  /\ fnIn \in ShapeConfigs
  /\ fnOut = [fn |-> "none"]
  /\ pending = <<>>
  /\ outW = [set |-> FALSE, w |-> <<>>]
  /\ predRet = [status |-> "none"]
  /\ responses = <<>>
  /\ saved = [set |-> FALSE]
  /\ NetIdle
  /\ PassIdle
  /\ VolIdle
  /\ TrainerIdle

ShapeNext ==
  Construction /\ UNCHANGED <<trainerVars, netVars, passVars, volVars, queryVars, saved, pending>>

SpecShape == ShapeInit /\ [][ShapeNext]_vars

\* ------------------------------------------------- pooling behaviours

\* A value below the -99999 the window scan starts from.
BelowFloor == Num(-100000 * Scale)

\* The pooling layers run: overlapping padded 2x2 windows over a 2x2x1
\* input (3x3 outputs), one 2x2 window of stride 2 over the same input, and
\* a 1x2 window over a 1x2x2 input (one output per depth slice).
PoolLayers ==
  {PoolObject(PoolLayer([type |-> "pool", in_sx |-> 2, in_sy |-> 2, in_depth |-> 1,
                         sx |-> 2, stride |-> 1, pad |-> 1])),
   PoolObject(PoolLayer([type |-> "pool", in_sx |-> 2, in_sy |-> 2, in_depth |-> 1,
                         sx |-> 2])),
   PoolObject(PoolLayer([type |-> "pool", in_sx |-> 1, in_sy |-> 2, in_depth |-> 2,
                         sx |-> 1, sy |-> 2, stride |-> 1]))}

\* The input Vols of a layer: every filling of its in_sx*in_sy*in_depth
\* entries with -1, 2 and -100000, so that windows hold ties and values
\* below -99999.
PoolInputs(L) ==
  {VolRandom(L.in_sx, L.in_sy, L.in_depth, rnd) :
     rnd \in [1..(L.in_sx * L.in_sy * L.in_depth) -> {Neg(One), Two, BelowFloor}]}

\* The gradients the layer above leaves in out_act.dw, repeated over its
\* entries.
GradPatterns == {<<One, Neg(Two)>>, <<Two, One, One>>}

\* The layer above runs backward: it replaces out_act.dw.
GradsFromAbove(gs) ==
  /\ layer.forwarded
  /\ Step([op |-> "gradFromAbove"])
  /\ layer' = [layer EXCEPT !.out_act.dw =
                 [i \in 1..Len(layer.out_act.w) |-> gs[((i - 1) % Len(gs)) + 1]]]
  /\ UNCHANGED vol

PoolInit ==
  /\ layer \in PoolLayers
  /\ vol \in PoolInputs(layer)
  /\ volRet = [op |-> "none"]
  /\ volOps = 0
  /\ MoreIdle
  /\ NetIdle
  /\ PassIdle
  /\ TrainerIdle

PoolNext ==
  \/ LayerForwardVol /\ UNCHANGED otherVars
  \/ \E c \in InRange(vol) : SetGrad(c, WriteValue) /\ UNCHANGED otherVars
  \/ \E gs \in GradPatterns : GradsFromAbove(gs) /\ UNCHANGED otherVars
  \/ LayerBackwardVol /\ UNCHANGED otherVars

SpecPool == PoolInit /\ [][PoolNext]_vars

\* ---------------------------------------------- saving and loading a Vol

\* The Vols fromJSON is called on: those the constructor makes, and those
\* an earlier fromJSON left (one of them with NaN entries).
JsonVols == InitVols \cup {Vol_fromJSON(json) : json \in JsonInputs}

\* The second Vol of a behaviour.
JsonOthers == {VolRandom(2, 1, 2, <<Two, Two, Neg(One), Zero>>), VolFromList(<<One, Two, Zero>>)}

\* The Vol named who: "self" is vol, "other" the second Vol.
Tensor(who) == IF who = "self" THEN vol ELSE fnIn.T

\* json = T.toJSON() for the Vol T named who. json.w is T.w itself, not a
\* copy: aliased records that it still is.
ToJSON(who) ==
  /\ Step([op |-> "toJSON"])
  /\ saved' = [set |-> TRUE, json |-> Vol_toJSON(Tensor(who)), from |-> who, aliased |-> TRUE]
  /\ UNCHANGED <<vol, layer, fnIn>>

\* T.set(x, y, d, v) for the Vol T named who: the write shows in json.w
\* while json.w is T.w.
SetOf(who, c, v) ==
  LET T == Vol_set(Tensor(who), c[1], c[2], c[3], v)
  IN  /\ Step([op |-> "set"])
      /\ IF who = "self"
         THEN vol' = T /\ UNCHANGED fnIn
         ELSE fnIn' = [fnIn EXCEPT !.T = T] /\ UNCHANGED vol
      /\ saved' = IF saved.set /\ saved.from = who /\ saved.aliased
                  THEN [saved EXCEPT !.json.w = T.w] ELSE saved
      /\ UNCHANGED layer

\* vol.fromJSON(json) with the json saved: vol gets new arrays, so json.w
\* is no longer vol.w.
FromJSONSaved ==
  /\ saved.set
  /\ Step([op |-> "fromJSON"])
  /\ vol' = Vol_fromJSON(saved.json)
  /\ saved' = IF saved.from = "self" THEN [saved EXCEPT !.aliased = FALSE] ELSE saved
  /\ UNCHANGED <<layer, fnIn>>

JsonInit ==
  /\ vol \in JsonVols
  /\ fnIn \in [fn : {"toJSON"}, T : JsonOthers]
  /\ layer = [layer_type |-> "none"]
  /\ volRet = [op |-> "none"]
  /\ volOps = 0
  /\ saved = [set |-> FALSE]
  /\ fnOut = [fn |-> "none"]
  /\ pending = <<>>
  /\ outW = [set |-> FALSE, w |-> <<>>]
  /\ predRet = [status |-> "none"]
  /\ responses = <<>>
  /\ NetIdle
  /\ PassIdle
  /\ TrainerIdle

JsonRest == <<trainerVars, netVars, passVars, queryVars, fnOut, pending>>

JsonNext ==
  \/ \E who \in {"self", "other"} : ToJSON(who) /\ UNCHANGED JsonRest
  \/ \E who \in {"self", "other"} : \E c \in InRange(Tensor(who)) :
       SetOf(who, c, WriteValue) /\ UNCHANGED JsonRest
  \/ \E c \in InRange(vol) : SetGrad(c, WriteValue) /\ UNCHANGED <<JsonRest, saved, fnIn>>
  \/ FromJSONSaved /\ UNCHANGED JsonRest

SpecJson == JsonInit /\ [][JsonNext]_vars

\* ------------------------------------------- accumulators over rebuilds

\* The networks of these behaviours: one without parameter groups (input
\* and loss layers only, as Net.fromJSON builds it from such a json), and
\* fully-connected layers of 1 input and 1 neuron, of 2 inputs and 1 neuron.
AllocNetworks == {<<>>, FcGroups(1, 1, One, Zero), FcGroups(2, 1, One, Zero)}

AllocInit ==
  /\ opt \in TrainerOptions
  /\ k = 0
  /\ gsum = <<>>
  /\ xsum = <<>>
  /\ pglist \in AllocNetworks
  /\ ncalls = 0
  /\ afterBackward = <<>>
  /\ trainRet = [status |-> "none"]
  /\ NetIdle
  /\ PassIdle
  /\ VolIdle
  /\ MoreIdle

AllocNext ==
  \/ \E in \in TrainInputs : Train(in) /\ UNCHANGED <<netVars, passVars, volVars, moreVars>>
  \/ \E net \in AllocNetworks : Rebuild(net) /\ UNCHANGED <<netVars, passVars, volVars, moreVars>>

SpecAlloc == AllocInit /\ [][AllocNext]_vars

\* ----------------------------------------------- convolution behaviours

\* The convolution layers run: a padded 2x2 filter over a 2x2x1 input (3x3
\* outputs, overlapping fields), two 2x1 filters over a 3x2x2 input, and a
\* padded 2x2 filter of stride 2 over a 3x3x1 input; filter weights as
\* drawn at construction, biases as bias_pref sets them.
ConvLayers ==
  {LayerObject(ConvLayer([type |-> "conv", in_sx |-> 2, in_sy |-> 2, in_depth |-> 1,
                          sx |-> 2, filters |-> 1, pad |-> 1, bias_pref |-> One]),
               <<VolRandom(2, 2, 1, <<One, Neg(One), Two, Zero>>)>>,
               VolOf(1, 1, 1, One)),
   LayerObject(ConvLayer([type |-> "conv", in_sx |-> 3, in_sy |-> 2, in_depth |-> 2,
                          sx |-> 2, sy |-> 1, filters |-> 2]),
               <<VolRandom(2, 1, 2, <<One, Two, Neg(One), Zero>>),
                 VolRandom(2, 1, 2, <<Zero, Neg(Two), One, One>>)>>,
               VolOf(1, 1, 2, Zero)),
   LayerObject(ConvLayer([type |-> "conv", in_sx |-> 3, in_sy |-> 3, in_depth |-> 1,
                          sx |-> 2, filters |-> 1, stride |-> 2, pad |-> 1]),
               <<VolRandom(2, 2, 1, <<Two, One, Neg(One), Neg(Two)>>)>>,
               VolOf(1, 1, 1, Zero))}

\* The input Vols of a layer: three fillings of its in_sx*in_sy*in_depth
\* entries with the values -1, -1/2, 0, 1/2 and 1.
ConvInputs(L) ==
  {VolRandom(L.in_sx, L.in_sy, L.in_depth,
             [i \in 1..(L.in_sx * L.in_sy * L.in_depth) |->
                Num((((i * m) % 5) - 2) * (Scale \div 2))]) : m \in 1..3}

ConvInit ==
  /\ layer \in ConvLayers
  /\ vol \in ConvInputs(layer)
  /\ volRet = [op |-> "none"]
  /\ volOps = 0
  /\ MoreIdle
  /\ NetIdle
  /\ PassIdle
  /\ TrainerIdle

ConvNext ==
  \/ LayerForwardVol /\ UNCHANGED otherVars
  \/ \E c \in InRange(vol) : SetGrad(c, WriteValue) /\ UNCHANGED otherVars
  \/ \E gs \in GradPatterns : GradsFromAbove(gs) /\ UNCHANGED otherVars
  \/ LayerBackwardVol /\ UNCHANGED otherVars

SpecConv == ConvInit /\ [][ConvNext]_vars

\* ------------------------------------------------ mini-batch behaviours

\* The options of these behaviours: those of TrainerOptions with batch_size
\* 1, 2 and 3.
BatchOptions == {[o EXCEPT !.batch_size = b] : o \in TrainerOptions, b \in 1..3}

\* Trainer.train(x, y) on a net whose layers stay as they are; pending
\* records the inputs of the calls since the last update step, this call
\* included.
BatchTrain(in) ==
  /\ Train(in)
  /\ pending' = IF IsUpdateCall(k, opt.batch_size) THEN <<in>> ELSE Append(pending, in)

BatchInit ==
  /\ opt \in BatchOptions
  /\ k = 0
  /\ gsum = <<>>
  /\ xsum = <<>>
  /\ pglist \in Networks
  /\ ncalls = 0
  /\ afterBackward = <<>>
  /\ trainRet = [status |-> "none"]
  /\ NetIdle
  /\ PassIdle
  /\ VolIdle
  /\ MoreIdle

BatchNext ==
  \E in \in TrainInputs :
    BatchTrain(in) /\ UNCHANGED <<netVars, passVars, volVars, queryVars, saved, fnIn, fnOut>>

SpecBatch == BatchInit /\ [][BatchNext]_vars

\* ------------------------------------------------- claims about the Trainer

\* A step of SpecTrainer that is a train call.
IsTrainStep == ncalls' = ncalls + 1

\* The state a train call hands to its update step.
AfterBackwardState ==
  [pglist |-> afterBackward', gsum |-> gsum, xsum |-> xsum,
   l1_decay_loss |-> Zero, l2_decay_loss |-> Zero, err |-> "none"]

AllGradsZero(pgs) ==
  \A i \in 1..Len(pgs) : \A j \in 1..Len(pgs[i].grads) : pgs[i].grads[j] = Zero

\* The sizes of the groups, and of the accumulators allocated for them.
GroupShape(pgs) == [i \in 1..Len(pgs) |-> Len(pgs[i].params)]
AccShape(gs) == [i \in 1..Len(gs) |-> Len(gs[i])]

\* C1: k counts the train calls from 0; a call performs the update step
\* exactly when k is a multiple of batch_size after the increment, and any
\* other call leaves the parameters, gsum and xsum as they were and the
\* gradients as its backward pass left them.
C1_UpdateExactlyOnMultiples ==
  [][IsTrainStep =>
       /\ k' = k + 1
       /\ k' = ncalls'
       /\ \A i \in 1..Len(pglist) : afterBackward'[i].params = pglist[i].params
       /\ IF k' % opt.batch_size = 0
          THEN LET st == UpdateStep(opt, AfterBackwardState)
               IN  pglist' = st.pglist /\ gsum' = st.gsum /\ xsum' = st.xsum
          ELSE pglist' = afterBackward' /\ gsum' = gsum /\ xsum' = xsum]_vars

\* Reached: with batch_size 2, the third call follows the update of the
\* second and writes nothing itself.
C1_Witness ==
  /\ opt.batch_size = 2
  /\ ncalls = 3
  /\ k = 3
  /\ trainRet.status = "ok"
  /\ pglist = afterBackward
  /\ ~AllGradsZero(pglist)

\* C2: right after an update step that train returns from, every entry of
\* every group's gradient buffer is 0, whatever the method.
C2_GradsZeroAfterUpdate ==
  [][(IsTrainStep /\ k' % opt.batch_size = 0 /\ trainRet'.status = "ok")
       => AllGradsZero(pglist')]_vars

\* Reached: an update step of every method, on gradients that were not zero.
C2_Witness ==
  /\ ncalls = 2
  /\ opt.batch_size = 2
  /\ opt.method = "adadelta"
  /\ trainRet.status = "ok"
  /\ ~AllGradsZero(afterBackward)
  /\ AllGradsZero(pglist)

\* C3 (as claimed): an update step that finds the groups changed in number
\* or size since gsum was allocated ends in an error and updates no parameter.
C3_MisalignedUpdateFails ==
  [][(/\ IsTrainStep
      /\ k' % opt.batch_size = 0
      /\ Len(gsum) > 0
      /\ AccShape(gsum) # GroupShape(pglist))
       => /\ trainRet'.status # "ok"
          /\ \A i \in 1..Len(pglist) : pglist'[i].params = pglist[i].params]_vars

\* --------------------------------------------- claims about Net.makeLayers

\* A makeLayers call has been made with the definitions madeFrom.defs.
Made == makeRet # "none"

\* The call was given a valid head: two definitions or more, the first an input.
HeadValid == Len(madeFrom.defs) >= 2 /\ madeFrom.defs[1].type = "input"

\* C7 (as claimed): after a makeLayers that returns, each layer was
\* constructed with the output shape of the layer before it as its input
\* shape, and there are as many layers as desugared definitions.
C7_LayersWiredAndCounted ==
  (Made /\ makeRet = "ok") =>
    /\ \A i \in 1..(Len(layers) - 1) :
         /\ layers[i + 1].opt.in_sx = layers[i].out_sx
         /\ layers[i + 1].opt.in_sy = layers[i].out_sy
         /\ layers[i + 1].opt.in_depth = layers[i].out_depth
    /\ Len(layers) = Len(madeFrom.new_defs)

\* C8 (as claimed): a definition after the input definition whose type tag
\* is not a recognized layer type makes makeLayers end in an error.
C8_UnrecognizedTypeFails ==
  (Made /\ HeadValid
     /\ \E i \in 2..Len(madeFrom.defs) :
          madeFrom.defs[i].type \notin
            {"fc", "lrn", "dropout", "input", "softmax", "regression", "conv",
             "pool", "relu", "sigmoid", "tanh", "maxout", "svm"})
    => makeRet # "ok"

\* C9 (as claimed): a definition whose activation is defined and is none of
\* relu, sigmoid, tanh, maxout makes makeLayers end in an error, with no
\* layers built.
C9_UnsupportedActivationFails ==
  (Made
     /\ \E i \in 1..Len(madeFrom.defs) :
          /\ "activation" \in DOMAIN madeFrom.defs[i]
          /\ madeFrom.defs[i].activation \notin {"relu", "sigmoid", "tanh", "maxout"})
    => (makeRet # "ok" /\ layers = madeFrom.old)

\* C10: makeLayers given fewer than two definitions, or a first definition
\* that is not an input, throws and leaves the layer list as it was.
C10_HeadChecksThrow ==
  (Made /\ (Len(madeFrom.defs) < 2 \/ madeFrom.defs[1].type # "input"))
    => (makeRet = "Error" /\ layers = madeFrom.old)

\* Reached: a built network survives a call whose first definition of two
\* is not an input, and one with a lone input definition.
C10_Witness ==
  /\ makeRet = "Error"
  /\ madeFrom.old # <<>>
  /\ layers = madeFrom.old
  /\ Len(madeFrom.defs) = 1
  /\ madeFrom.defs[1].type = "input"

\* The first half of C7 alone.
LayersWired ==
  (Made /\ makeRet = "ok") =>
    \A i \in 1..(Len(layers) - 1) :
      /\ layers[i + 1].opt.in_sx = layers[i].out_sx
      /\ layers[i + 1].opt.in_sy = layers[i].out_sy
      /\ layers[i + 1].opt.in_depth = layers[i].out_depth

\* ------------------------------- claims about Net.forward and Net.backward

\* C4: backward(y) calls the last layer's backward with y, first and once,
\* then the parameterless backward of every layer before it, once each, in
\* strictly decreasing index, and returns what the last layer returned.
C4_BackwardOrder ==
  netRet.fn = "backward" =>
    LET n == Len(layers)
    IN  /\ Len(calls) = n
        /\ calls[1].layer = n
        /\ calls[1].arg = netRet.y
        /\ netRet.ret = calls[1].ret
        /\ \A j \in 2..n :
             /\ calls[j].layer = n - j + 1
             /\ calls[j].fn = "backward"
             /\ "arg" \notin DOMAIN calls[j]

\* Reached: a backward pass over six layers whose loss layer returned a
\* nonzero loss.
C4_Witness ==
  /\ netRet.fn = "backward"
  /\ Len(layers) = 6
  /\ netRet.y = 1
  /\ netRet.ret = Num(3 * Scale)
  /\ calls[6].layer = 1

\* C5: forward(V, is_training) calls forward on every layer once, in
\* increasing index, layer 1 on V and layer i+1 on the Vol layer i returned,
\* returns the last layer's output, and passes every layer the same
\* is_training, false when the argument is omitted.
C5_ForwardThreads ==
  netRet.fn = "forward" =>
    LET n == Len(layers)
        t == IF netRet.is_training = "undefined" THEN "false" ELSE netRet.is_training
    IN  /\ Len(calls) = n
        /\ calls[1].arg = netRet.V
        /\ netRet.ret = calls[n].ret
        /\ \A i \in 1..n :
             /\ calls[i].layer = i
             /\ calls[i].fn = "forward"
             /\ calls[i].is_training = t
             /\ acts[i].out_act = calls[i].ret
        /\ \A i \in 1..(n - 1) : calls[i + 1].arg = calls[i].ret

\* Reached: a forward pass over six layers called without is_training.
C5_Witness ==
  /\ netRet.fn = "forward"
  /\ netRet.is_training = "undefined"
  /\ Len(layers) = 6
  /\ calls[6].is_training = "false"
  /\ netRet.ret = acts[6].out_act
  /\ acts[6].in_act = acts[5].out_act

\* ------------------------------------------------------- claims about Vol

\* w and dw of V both have sx*sy*depth entries.
WellSized(V) == Len(V.w) = V.sx * V.sy * V.depth /\ Len(V.dw) = V.sx * V.sy * V.depth

\* C6: after any sequence of operations on a Vol (construction, the
\* accessors at in-range coordinates, clone, cloneAndZero, addFrom,
\* addFromScaled, setConst, fromJSON, a layer's backward over it), its w and
\* dw have sx*sy*depth entries each; so have the Vols clone and cloneAndZero
\* return.
C6_VolArraysSized ==
  /\ WellSized(vol)
  /\ "vol" \in DOMAIN volRet => WellSized(volRet.vol)
  /\ "filters" \in DOMAIN layer =>
       /\ WellSized(layer.biases)
       /\ \A i \in 1..Len(layer.filters) : WellSized(layer.filters[i])

\* Reached: a Vol of two entries run backward through a layer built for
\* four, with a nonzero gradient from above, its dw made anew with two.
C6_Witness ==
  /\ volRet.op = "backward"
  /\ "threw" \notin DOMAIN volRet
  /\ layer.forwarded
  /\ vol.sx * vol.sy * vol.depth = 2
  /\ Len(vol.dw) = 2
  /\ \E i \in 1..Len(vol.dw) : vol.dw[i] # Zero /\ vol.dw[i] # NaN

\* ------------------- claims about getPrediction and getParamsAndGrads

\* C11: getPrediction throws whenever the last layer is not a softmax
\* layer, returning no index; when it is, and a forward pass has left its
\* outputs, the index returned is the smallest one whose output is maximal.
C11_PredictionIsFirstArgMax ==
  predRet.status # "none" =>
    /\ (Len(layers) = 0 \/ layers[Len(layers)].layer_type # "softmax") =>
         /\ predRet.status \in {"Error", "TypeError"}
         /\ "value" \notin DOMAIN predRet
    /\ (Len(layers) > 0 /\ layers[Len(layers)].layer_type # "softmax") =>
         predRet.status = "Error"
    /\ (Len(layers) > 0 /\ layers[Len(layers)].layer_type = "softmax" /\ predRet.p.set) =>
         /\ predRet.status = "ok"
         /\ LET p == predRet.p.w
                m == predRet.value + 1
            IN  /\ m \in 1..Len(p)
                /\ \A j \in 1..Len(p) : p[j].v <= p[m].v
                /\ \A j \in 1..(m - 1) : p[j].v < p[m].v

\* Reached: a softmax of three classes whose second and third outputs tie
\* for the maximum; 1 is returned.
C11_Witness ==
  /\ predRet.status = "ok"
  /\ Len(predRet.p.w) = 3
  /\ predRet.p.w[2] = predRet.p.w[3]
  /\ predRet.p.w[1].v < predRet.p.w[2].v
  /\ predRet.value = 1

\* The groups of the response r that refer to layer i (counted from 0).
GroupsOfLayer(r, i) == SelectSeq(r, LAMBDA g : g.params.layer = i)

\* C12: getParamsAndGrads lists the groups in layer order; a conv or fc
\* layer gives its out_depth filter groups in filter order and then one
\* bias group, any other layer none; a second call with the structure
\* unchanged returns as many groups, the i-th referring to the same params
\* and grads arrays.
C12_GroupsInLayerThenFilterOrder ==
  \A c \in 1..Len(responses) :
    LET r == responses[c]
    IN  /\ \A a, b \in 1..Len(r) : a < b => r[a].params.layer <= r[b].params.layer
        /\ \A i \in 1..Len(layers) :
             LET L == layers[i]
                 g == GroupsOfLayer(r, i - 1)
             IN  IF L.layer_type \in {"conv", "fc"}
                 THEN /\ Len(g) = L.out_depth + 1
                      /\ \A j \in 1..L.out_depth :
                           /\ g[j].params = [layer |-> i - 1, vol |-> "filters",
                                             index |-> j - 1, field |-> "w"]
                           /\ g[j].grads = [layer |-> i - 1, vol |-> "filters",
                                            index |-> j - 1, field |-> "dw"]
                      /\ g[Len(g)].params.vol = "biases"
                      /\ g[Len(g)].grads = [layer |-> i - 1, vol |-> "biases",
                                            index |-> 0, field |-> "dw"]
                 ELSE Len(g) = 0
        /\ \A a \in 1..Len(r) : r[a].params.layer \in 0..(Len(layers) - 1)
        /\ c > 1 =>
             /\ Len(r) = Len(responses[c - 1])
             /\ \A a \in 1..Len(r) :
                  /\ r[a].params = responses[c - 1][a].params
                  /\ r[a].grads = responses[c - 1][a].grads

\* Reached: two calls on the six-layer network with a convolution of two
\* filters and a fully connected layer, six groups each time.
C12_Witness ==
  /\ Len(responses) = 2
  /\ Len(layers) = 6
  /\ Len(responses[2]) = 6
  /\ responses[2][3].params.vol = "biases"
  /\ responses[2][4].params.layer > responses[2][3].params.layer

\* ------------------------------------------ claims about the sgd update

\* The sign of p: -1, 0 or +1.
Sign(p) == IF p.v > 0 THEN One ELSE IF p.v < 0 THEN Neg(One) ELSE Zero

\* p - lr*g' for weight j of group i as the backward pass left it, with
\* g' = (l2_decay*l2_decay_mul*p + l1_decay*l1_decay_mul*sign(p) + g)/batch_size.
SgdExpected(i, j) ==
  LET pg == afterBackward'[i]
      p == pg.params[j]
      g1 == Add(Add(Mul(Mul(opt.l2_decay, pg.l2_decay_mul), p),
                    Mul(Mul(opt.l1_decay, pg.l1_decay_mul), Sign(p))),
                pg.grads[j])
  IN  Sub(p, Mul(opt.learning_rate, Num(Quot(g1.v, opt.batch_size))))

\* A train step that runs the update step of a plain sgd Trainer.
IsSgdUpdate ==
  /\ IsTrainStep
  /\ opt.method = "sgd"
  /\ opt.momentum = Zero
  /\ k' % opt.batch_size = 0

\* C13: an update step of plain sgd takes every weight p with raw gradient
\* g to p - lr*g', g' = (l2_decay*l2_decay_mul*p +
\* l1_decay*l1_decay_mul*sign(p) + g)/batch_size, with sign(0) = 0.
C13_SgdStepFormula ==
  [][IsSgdUpdate =>
       \A i \in 1..Len(pglist') : \A j \in 1..Len(pglist'[i].params) :
         pglist'[i].params[j] = SgdExpected(i, j)]_vars

\* The same for every weight that is not 0 or whose group has no L1 decay.
SgdFormulaAwayFromZero ==
  [][IsSgdUpdate =>
       \A i \in 1..Len(pglist') : \A j \in 1..Len(pglist'[i].params) :
         (afterBackward'[i].params[j] # Zero
            \/ Mul(opt.l1_decay, afterBackward'[i].l1_decay_mul) = Zero)
           => pglist'[i].params[j] = SgdExpected(i, j)]_vars

\* -------------------------------------------- claims about output sizes

\* The options of the constructed layer, defaults filled in.
ShapeOf(o) ==
  [sy |-> IF "sy" \in DOMAIN o THEN o.sy ELSE o.sx,
   stride |-> IF "stride" \in DOMAIN o THEN o.stride
              ELSE IF o.type = "conv" THEN 1 ELSE 2,
   pad |-> IF "pad" \in DOMAIN o THEN o.pad ELSE 0]

\* floor(n/d) for d > 0, by its defining inequalities.
FloorOf(n, d) == CHOOSE q \in (-(MaxSize + 2))..(MaxSize + 2) : q * d <= n /\ n < (q + 1) * d

\* out_sx = floor((in_sx + 2*pad - filterSx)/stride) + 1, and out_sy alike.
OutSizesAsSpecified ==
  LET o == fnIn
      s == ShapeOf(o)
  IN  /\ fnOut.layer.out_sx = FloorOf(o.in_sx + 2 * s.pad - o.sx, s.stride) + 1
      /\ fnOut.layer.out_sy = FloorOf(o.in_sy + 2 * s.pad - s.sy, s.stride) + 1

\* C14 as stated: every conv or pool layer is constructed without error,
\* with out_sx = floor((in_sx + 2*pad - filterSx)/stride) + 1 and out_sy
\* alike, also where the stride does not divide evenly.
C14_OutSizeNoError ==
  fnOut.fn = "construct" => (fnOut.status = "ok" /\ OutSizesAsSpecified)

\* C14, amended: out_sx and out_sy are as the formula says for every
\* configuration, and construction throws only for a pool layer whose
\* out_sx*out_sy*out_depth is negative; no configuration whose filter fits
\* in the padded input throws, whether or not the stride divides evenly.
C14_OutSizeFloor ==
  fnOut.fn = "construct" =>
    /\ OutSizesAsSpecified
    /\ fnOut.status # "ok" =>
         /\ fnIn.type = "pool"
         /\ fnOut.layer.out_sx * fnOut.layer.out_sy * fnOut.layer.out_depth < 0
    /\ (fnIn.in_sx + 2 * ShapeOf(fnIn).pad >= fnIn.sx
          /\ fnIn.in_sy + 2 * ShapeOf(fnIn).pad >= ShapeOf(fnIn).sy) => fnOut.status = "ok"

\* Reached: a 4-wide input, filter 3 and stride 2 without padding (1/2 does
\* not divide); the layer is constructed with out_sx = 1.
C14_Witness ==
  /\ fnOut.fn = "construct"
  /\ fnOut.status = "ok"
  /\ fnIn.in_sx = 4 /\ fnIn.sx = 3
  /\ "stride" \in DOMAIN fnIn /\ fnIn.stride = 2 /\ fnIn.pad = 0
  /\ fnOut.layer.out_sx = 1

\* ---------------------------------------------------- claims about pooling

\* The output cells of the pooling layer, <<ax, ay, d>>.
OutCells == (0..(layer.out_sx - 1)) \X (0..(layer.out_sy - 1)) \X (0..(layer.out_depth - 1))

\* The position of output cell c in switchx and switchy (d, ax, ay order).
SwitchIndex(c) == (c[3] * layer.out_sx + c[1]) * layer.out_sy + c[2] + 1

\* The cells of vol inside the window of output cell c.
WindowCells(c) ==
  {p \in (0..(vol.sx - 1)) \X (0..(vol.sy - 1)) :
     /\ p[1] - (c[1] * layer.stride - layer.pad) \in 0..(layer.sx - 1)
     /\ p[2] - (c[2] * layer.stride - layer.pad) \in 0..(layer.sy - 1)}

\* When the scan reaches the cell p of the window of c: fx outer, fy inner.
ScanRank(c, p) ==
  (p[1] - (c[1] * layer.stride - layer.pad)) * layer.sy
    + (p[2] - (c[2] * layer.stride - layer.pad))

\* The output cell c holds the maximum of its window, and its winner is
\* the earliest-scanned cell holding it.
IsWindowMax(c) ==
  LET cells == WindowCells(c)
      out == Vol_get(layer.out_act, c[1], c[2], c[3])
      win == <<layer.switchx[SwitchIndex(c)], layer.switchy[SwitchIndex(c)]>>
  IN  /\ \A p \in cells : Vol_get(vol, p[1], p[2], c[3]).v <= out.v
      /\ win \in cells
      /\ Vol_get(vol, win[1], win[2], c[3]) = out
      /\ \A p \in cells : Vol_get(vol, p[1], p[2], c[3]) = out => ScanRank(c, win) <= ScanRank(c, p)

\* C15: after PoolLayer.forward every output value is the maximum over the
\* in-range cells of its window, for any input values, and the recorded
\* winner is the earliest-scanned cell attaining it.
C15_PoolForwardTrueMax ==
  (layer.forwarded /\ layer.layer_type = "pool") => \A c \in OutCells : IsWindowMax(c)

\* What the code does keep: the claim's property for every window that
\* holds a value above -99999.
PoolMaxAboveFloor ==
  (layer.forwarded /\ layer.layer_type = "pool") =>
    \A c \in OutCells :
      (\E p \in WindowCells(c) : Gt(Vol_get(vol, p[1], p[2], c[3]), PoolFloor)) => IsWindowMax(c)

\* The sum of the gradients out_act.dw holds at the output cells in S.
RECURSIVE SumOutGrads(_)
SumOutGrads(S) ==
  IF S = {} THEN Zero
  ELSE LET c == CHOOSE x \in S : TRUE
       IN  Add(Vol_get_grad(layer.out_act, c[1], c[2], c[3]), SumOutGrads(S \ {c}))

\* The output cells at depth d whose recorded winner is the cell (x, y).
WonBy(x, y, d) ==
  {c \in OutCells : /\ c[3] = d
                    /\ layer.switchx[SwitchIndex(c)] = x
                    /\ layer.switchy[SwitchIndex(c)] = y}

\* PoolLayer.backward has just run on a forwarded layer.
AfterPoolBackward ==
  /\ layer.layer_type = "pool"
  /\ volRet.op = "backward"
  /\ "threw" \notin DOMAIN volRet

\* C16: after forward and then backward of a pooling layer, the input
\* gradient at (x, y, d) is the sum of the output gradients of the output
\* cells at depth d whose winner is (x, y); a cell that won nothing has
\* gradient 0, whatever dw held before.
C16_PoolBackwardRoutesToWinners ==
  AfterPoolBackward =>
    /\ Len(vol.dw) = vol.sx * vol.sy * vol.depth
    /\ \A p \in InRange(vol) :
         Vol_get_grad(vol, p[1], p[2], p[3]) = SumOutGrads(WonBy(p[1], p[2], p[3]))

\* Reached: after backward, one input cell has won two output cells with
\* non-zero gradients and holds their sum, and another cell has won nothing.
C16_Witness ==
  /\ AfterPoolBackward
  /\ \E p \in InRange(vol) :
       /\ Cardinality(WonBy(p[1], p[2], p[3])) >= 2
       /\ \A c \in WonBy(p[1], p[2], p[3]) : Vol_get_grad(layer.out_act, c[1], c[2], c[3]) # Zero
       /\ Vol_get_grad(vol, p[1], p[2], p[3]) # Zero
  /\ \E p \in InRange(vol) :
       /\ WonBy(p[1], p[2], p[3]) = {}
       /\ Vol_get_grad(vol, p[1], p[2], p[3]) = Zero

\* ------------------------------------------- claims about toJSON/fromJSON

\* A step that loads the saved json while json.w is still the array of the
\* Vol it was saved from.
IsRoundTrip ==
  /\ saved.set
  /\ saved.aliased
  /\ volOps' = volOps + 1
  /\ volRet'.op = "fromJSON"

\* C17: T2.fromJSON(T1.toJSON()) leaves T2 with T1's sx, sy and depth, with
\* w identical to T1's, and with dw all zero of length sx*sy*depth, whatever
\* T2 held before (T2 may be T1).
C17_JsonRoundTrip ==
  [][IsRoundTrip =>
       LET T1 == Tensor(saved.from)
       IN  /\ vol'.sx = T1.sx /\ vol'.sy = T1.sy /\ vol'.depth = T1.depth
           /\ vol'.w = T1.w
           /\ Len(vol'.dw) = T1.sx * T1.sy * T1.depth
           /\ \A i \in 1..Len(vol'.dw) : vol'.dw[i] = Zero]_vars

\* Reached: a 2x1x2 Vol with differing weights was saved and loaded, as
\* the third operation of the behaviour, into the other Vol.
C17_Witness ==
  /\ volRet.op = "fromJSON"
  /\ saved.set /\ saved.from = "other"
  /\ vol.sx = 2 /\ vol.sy = 1 /\ vol.depth = 2
  /\ vol.w = fnIn.T.w
  /\ vol.w[1] # vol.w[3]
  /\ volOps = 3

\* ------------------------------------------------- claims about desugar

\* Position p of the desugared list holds the original definition i (fc
\* and conv definitions may have gained a bias_pref), and, when it is a
\* softmax, svm or regression definition, position p - 1 lies after the
\* previous original (at from or later) and holds the inserted fc.
HoldsOriginal(i, p, from) ==
  LET def == madeFrom.defs[i]
      new == madeFrom.new_defs
      width == IF def.type = "regression" THEN def.num_neurons ELSE def.num_classes
  IN  /\ DOMAIN def \subseteq DOMAIN new[p]
      /\ DOMAIN new[p] \subseteq DOMAIN def \cup {"bias_pref"}
      /\ \A f \in DOMAIN def : new[p][f] = def[f]
      /\ def.type \in {"softmax", "svm", "regression"} =>
           /\ p - 1 >= from
           /\ new[p - 1] = [type |-> "fc", num_neurons |-> width]

\* The originals from i on can be found, in their order, in the desugared
\* list from position from on.
RECURSIVE InOrderFrom(_, _)
InOrderFrom(i, from) ==
  IF i > Len(madeFrom.defs) THEN TRUE
  ELSE \E p \in from..Len(madeFrom.new_defs) :
         HoldsOriginal(i, p, from) /\ InOrderFrom(i + 1, p + 1)

\* C18: in the desugared list the original definitions keep their relative
\* order, every softmax or svm definition comes right after an inserted fc
\* with num_neurons = num_classes, and every regression definition right
\* after an inserted fc with num_neurons = its num_neurons.
C18_DesugarInsertsFc ==
  (Made /\ HeadValid) => InOrderFrom(1, 1)

\* Reached: input, fc with tanh and drop_prob, softmax was desugared into
\* six definitions, the fifth the inserted fc of two neurons and the sixth
\* the softmax.
C18_Witness ==
  /\ Made /\ HeadValid
  /\ Len(madeFrom.defs) = 3
  /\ Len(madeFrom.new_defs) = 6
  /\ madeFrom.new_defs[5] = [type |-> "fc", num_neurons |-> 2]
  /\ madeFrom.new_defs[6] = madeFrom.defs[3]
  /\ madeFrom.defs[3].type = "softmax"

\* The activations desugar appends a definition for.
AppendedActivations == {"relu", "sigmoid", "tanh", "maxout"}

\* The original definition i, held at position p of the desugared list, is
\* followed by a dropout definition with its drop_prob: right after it, or
\* right after the activation definition appended for it.
DropoutAppended(i, p) ==
  LET def == madeFrom.defs[i]
      new == madeFrom.new_defs
      na == IF "activation" \in DOMAIN def /\ def.activation \in AppendedActivations
           THEN 1 ELSE 0
  IN  /\ p + na + 1 <= Len(new)
      /\ na = 1 => new[p + 1].type = def.activation
      /\ new[p + na + 1] = [type |-> "dropout", drop_prob |-> def.drop_prob]

\* The originals from i on are found in their order from position from on,
\* each one that carries drop_prob (and, unless any, is not itself a dropout
\* definition) with its own appended dropout definition.
RECURSIVE WithDropoutFrom(_, _, _)
WithDropoutFrom(i, from, any) ==
  IF i > Len(madeFrom.defs) THEN TRUE
  ELSE LET def == madeFrom.defs[i]
           covered == "drop_prob" \in DOMAIN def /\ (any \/ def.type # "dropout")
           na == IF "activation" \in DOMAIN def /\ def.activation \in AppendedActivations
                THEN 1 ELSE 0
       IN  \E p \in from..Len(madeFrom.new_defs) :
             /\ HoldsOriginal(i, p, from)
             /\ covered => DropoutAppended(i, p)
             /\ WithDropoutFrom(i + 1, IF covered THEN p + na + 2 ELSE p + 1, any)

\* C19 as stated: every definition carrying drop_prob, of any type, gets a
\* dropout definition with that drop_prob appended after it (after its
\* appended activation definition when it carries an activation).
C19_DropoutForAnyType ==
  (Made /\ HeadValid) => WithDropoutFrom(1, 1, TRUE)

\* C19, amended: every definition of a type other than dropout carrying
\* drop_prob gets a dropout definition with that drop_prob appended after
\* it (after the activation definition appended for it, when there is one).
C19_DropoutUnlessDropout ==
  (Made /\ HeadValid) => WithDropoutFrom(1, 1, FALSE)

\* Reached: an fc definition with tanh and drop_prob was desugared into fc,
\* tanh, dropout, and a dropout definition carrying drop_prob into itself
\* alone.
C19_Witness ==
  /\ Made /\ HeadValid
  /\ Len(madeFrom.defs) = 3
  /\ madeFrom.defs[2].type = "fc" /\ "drop_prob" \in DOMAIN madeFrom.defs[2]
  /\ madeFrom.defs[2].activation = "tanh"
  /\ madeFrom.defs[3].type = "dropout" /\ "drop_prob" \in DOMAIN madeFrom.defs[3]
  /\ Len(madeFrom.new_defs) = 5
  /\ madeFrom.new_defs[3] = [type |-> "tanh"]
  /\ madeFrom.new_defs[4] = [type |-> "dropout", drop_prob |-> madeFrom.defs[2].drop_prob]
  /\ madeFrom.new_defs[5] = madeFrom.defs[3]

\* ------------------------------------------ claims about gsum and xsum

\* Every entry of every buffer of the list is 0.
ZeroFilled(gs) == \A i \in 1..Len(gs) : \A j \in 1..Len(gs[i]) : gs[i][j] = Zero

\* The Trainer is plain sgd: method sgd with momentum 0.
PlainSgd == opt.method = "sgd" /\ opt.momentum = Zero

\* The train call that performs the first update step, and one that
\* performs a later one.
IsFirstUpdate == IsTrainStep /\ k' = opt.batch_size
IsLaterUpdate == IsTrainStep /\ k' % opt.batch_size = 0 /\ k' > opt.batch_size

\* Empty until the first update step; never allocated by plain sgd.
EmptyUntilNeeded ==
  /\ k < opt.batch_size => (gsum = <<>> /\ xsum = <<>>)
  /\ PlainSgd => (gsum = <<>> /\ xsum = <<>>)

\* The first update step of any other Trainer allocates, before it updates
\* anything, one zero-filled gsum buffer per group, of the group's size and
\* in group order, and xsum buffers of that size for adadelta only (empty
\* ones otherwise); the step leaves the lists with those sizes.
FirstUpdateAllocates ==
  (IsFirstUpdate /\ ~PlainSgd) =>
    LET a == Allocate(opt, afterBackward', AfterBackwardState)
    IN  /\ AccShape(a.gsum) = GroupShape(afterBackward')
        /\ ZeroFilled(a.gsum) /\ ZeroFilled(a.xsum)
        /\ AccShape(gsum') = GroupShape(afterBackward')
        /\ Len(xsum') = Len(afterBackward')
        /\ \A i \in 1..Len(xsum') :
             Len(xsum'[i]) = IF opt.method = "adadelta"
                             THEN Len(afterBackward'[i].params) ELSE 0

\* C20: gsum and xsum are empty until the first update step and for plain
\* sgd ever after; the first update step of any other Trainer allocates
\* them to the groups' sizes, zero-filled; and no later update step
\* allocates again or changes the number or the sizes of the buffers.
C20_AllocatedOnceAtFirstUpdate ==
  [][/\ EmptyUntilNeeded /\ EmptyUntilNeeded'
     /\ FirstUpdateAllocates
     /\ IsLaterUpdate => (AccShape(gsum') = AccShape(gsum) /\ AccShape(xsum') = AccShape(xsum))]_vars

\* What the code keeps: the same, with the later update steps restricted
\* to those that find gsum non-empty.
AllocatedOnceWhenNonEmpty ==
  [][/\ EmptyUntilNeeded /\ EmptyUntilNeeded'
     /\ FirstUpdateAllocates
     /\ (IsLaterUpdate /\ gsum # <<>>) =>
          (AccShape(gsum') = AccShape(gsum) /\ AccShape(xsum') = AccShape(xsum))]_vars

\* --------------------------------------------- claims about the switches

\* The output's flat index of the output cell c = <<ax, ay, d>>, counted
\* from 1 as the sequences are.
FlatIndex(c) == (layer.out_sx * c[2] + c[1]) * layer.out_depth + c[3] + 1

\* The coordinate recorded at position n of switchx and switchy is the
\* winner of the output cell c: the earliest-scanned cell of c's window
\* holding the value written to c, or (-1, -1) when no value of the window
\* exceeded the -99999 the scan starts from.
RecordsWinnerOf(n, c) ==
  LET cells == WindowCells(c)
      out == Vol_get(layer.out_act, c[1], c[2], c[3])
      win == <<layer.switchx[n], layer.switchy[n]>>
  IN  /\ n \in 1..Len(layer.switchx)
      /\ IF \E p \in cells : Gt(Vol_get(vol, p[1], p[2], c[3]), PoolFloor)
         THEN /\ win \in cells
              /\ Vol_get(vol, win[1], win[2], c[3]) = out
              /\ \A p \in cells : Vol_get(vol, p[1], p[2], c[3]) = out
                                    => ScanRank(c, win) <= ScanRank(c, p)
         ELSE win = <<-1, -1>>

\* C21 as stated: after PoolLayer.forward the winner of each output cell is
\* recorded at the cell's flat index in the output,
\* (out_sx*ay + ax)*out_depth + d.
C21_SwitchAtFlatIndex ==
  (layer.forwarded /\ layer.layer_type = "pool") =>
    \A c \in OutCells : RecordsWinnerOf(FlatIndex(c), c)

\* C21, amended: the winner of the output cell (ax, ay, d) is recorded at
\* the position the loops reach it at, (d*out_sx + ax)*out_sy + ay (depth
\* outermost, then ax, then ay).
C21_SwitchAtVisitOrder ==
  (layer.forwarded /\ layer.layer_type = "pool") =>
    \A c \in OutCells : RecordsWinnerOf(SwitchIndex(c), c)

\* Reached: a forwarded 3x3 output in which the cells (0, 1) and (1, 0),
\* whose flat index and visit position are exchanged, have different
\* winners.
C21_Witness ==
  /\ layer.forwarded /\ layer.layer_type = "pool"
  /\ layer.out_sx = 3 /\ layer.out_sy = 3
  /\ SwitchIndex(<<0, 1, 0>>) = FlatIndex(<<1, 0, 0>>)
  /\ <<layer.switchx[SwitchIndex(<<0, 1, 0>>)], layer.switchy[SwitchIndex(<<0, 1, 0>>)]>>
       # <<layer.switchx[SwitchIndex(<<1, 0, 0>>)], layer.switchy[SwitchIndex(<<1, 0, 0>>)]>>

\* ------------------------------------------------ claims about ConvLayer

\* The output cells of the convolution layer, <<ax, ay, d>>.
ConvOutCells ==
  (0..(layer.out_sx - 1)) \X (0..(layer.out_sy - 1)) \X (0..(layer.out_depth - 1))

\* The filter positions <<fx, fy, fd>> of output cell c whose input
\* coordinate lies inside vol.
TapsInside(c) ==
  {t \in (0..(layer.sx - 1)) \X (0..(layer.sy - 1)) \X (0..(layer.in_depth - 1)) :
     /\ c[1] * layer.stride - layer.pad + t[1] \in 0..(vol.sx - 1)
     /\ c[2] * layer.stride - layer.pad + t[2] \in 0..(vol.sy - 1)}

\* The sum over the filter positions in S of filter weight times input
\* value, for the filter f and the output cell c.
RECURSIVE SumOfProducts(_, _, _)
SumOfProducts(S, f, c) ==
  IF S = {} THEN Zero
  ELSE LET t == CHOOSE x \in S : TRUE
       IN  Add(Mul(Vol_get(f, t[1], t[2], t[3]),
                   Vol_get(vol, c[1] * layer.stride - layer.pad + t[1],
                                c[2] * layer.stride - layer.pad + t[2], t[3])),
               SumOfProducts(S \ {t}, f, c))

\* A step in which a convolution layer runs forward.
IsConvForward ==
  /\ layer.layer_type = "conv"
  /\ volOps' = volOps + 1
  /\ volRet'.op = "forward"

\* C22: ConvLayer.forward sets output[ax, ay, d] to bias[d] plus the sum of
\* filter_d.w[fx, fy, fd] * input.w[ox, oy, fd] over the filter positions
\* whose input coordinate lies inside the input (the others contribute
\* nothing), and changes no filter, bias, gradient or input value.
C22_ConvForwardFormula ==
  [][IsConvForward =>
       /\ \A c \in ConvOutCells :
            Vol_get(layer'.out_act, c[1], c[2], c[3]) =
              Add(ReadF64(layer.biases.w, c[3] + 1),
                  SumOfProducts(TapsInside(c), layer.filters[c[3] + 1], c))
       /\ layer'.filters = layer.filters
       /\ layer'.biases = layer.biases
       /\ vol' = vol]_vars

\* Reached: a padded layer has run forward; a corner output cell had only
\* one filter position inside the input, an inner one all four, and the
\* two outputs differ from the bias and from each other.
C22_Witness ==
  /\ layer.layer_type = "conv" /\ layer.forwarded /\ volRet.op = "forward"
  /\ layer.pad = 1 /\ layer.stride = 1
  /\ Cardinality(TapsInside(<<2, 2, 0>>)) = 1
  /\ Cardinality(TapsInside(<<1, 1, 0>>)) = 4
  /\ Vol_get(layer.out_act, 2, 2, 0) # ReadF64(layer.biases.w, 1)
  /\ Vol_get(layer.out_act, 1, 1, 0) # Vol_get(layer.out_act, 2, 2, 0)

\* The pairs <<c, t>> of an output cell c and a filter position t of it
\* that lies inside vol.
CellTaps == {ct \in ConvOutCells \X ((0..(layer.sx - 1)) \X (0..(layer.sy - 1)) \X (0..(layer.in_depth - 1))) :
               ct[2] \in TapsInside(ct[1])}

\* The input cell <<ox, oy, fd>> the pair <<c, t>> reads.
InputCellOf(ct) ==
  <<ct[1][1] * layer.stride - layer.pad + ct[2][1],
    ct[1][2] * layer.stride - layer.pad + ct[2][2], ct[2][3]>>

\* The gradient the layer above left at output cell c.
ChainGrad(c) == Vol_get_grad(layer.out_act, c[1], c[2], c[3])

\* One contribution of backward: for "input" the filter weight times
\* chain_grad of the pair x = <<c, t>>, for "filter" the input value times
\* chain_grad of the pair, for "bias" chain_grad of the output cell x.
GradTerm(kind, x) ==
  CASE kind = "input" ->
         Mul(Vol_get(layer.filters[x[1][3] + 1], x[2][1], x[2][2], x[2][3]), ChainGrad(x[1]))
    [] kind = "filter" ->
         Mul(Vol_get(vol, InputCellOf(x)[1], InputCellOf(x)[2], InputCellOf(x)[3]), ChainGrad(x[1]))
    [] kind = "bias" -> ChainGrad(x)

\* The sum of the contributions of the given kind over the set S.
RECURSIVE SumOfGrads(_, _)
SumOfGrads(kind, S) ==
  IF S = {} THEN Zero
  ELSE LET x == CHOOSE y \in S : TRUE
       IN  Add(GradTerm(kind, x), SumOfGrads(kind, S \ {x}))

\* A step in which a forwarded convolution layer runs backward.
IsConvBackward ==
  /\ layer.layer_type = "conv"
  /\ layer.forwarded
  /\ volOps' = volOps + 1
  /\ volRet'.op = "backward"

\* C23: ConvLayer.backward leaves in the input gradient, whatever it held
\* before, the sum of filter.w * chain_grad over all output cells and
\* in-range filter positions that read the input cell; it adds to each
\* filter gradient the sum of input.w * chain_grad over the output cells of
\* its depth, and to bias.dw[d] chain_grad once per output cell of depth d.
C23_ConvBackwardAccumulates ==
  [][IsConvBackward =>
       /\ Len(vol'.dw) = Len(vol.w)
       /\ vol'.w = vol.w
       /\ \A p \in InRange(vol) :
            Vol_get_grad(vol', p[1], p[2], p[3]) =
              SumOfGrads("input", {ct \in CellTaps : InputCellOf(ct) = p})
       /\ \A d \in 0..(layer.out_depth - 1) :
            /\ layer'.filters[d + 1].w = layer.filters[d + 1].w
            /\ \A t \in InRange(layer.filters[d + 1]) :
                 Vol_get_grad(layer'.filters[d + 1], t[1], t[2], t[3]) =
                   Add(Vol_get_grad(layer.filters[d + 1], t[1], t[2], t[3]),
                       SumOfGrads("filter", {ct \in CellTaps : ct[1][3] = d /\ ct[2] = t}))
            /\ ReadF64(layer'.biases.dw, d + 1) =
                 Add(ReadF64(layer.biases.dw, d + 1),
                     SumOfGrads("bias", {c \in ConvOutCells : c[3] = d}))
       /\ layer'.biases.w = layer.biases.w]_vars

\* Reached: the padded layer with overlapping fields has run backward on
\* non-zero output gradients; an input cell read by four output cells, a
\* filter entry and the bias hold non-zero gradients.
C23_Witness ==
  /\ layer.layer_type = "conv" /\ layer.forwarded /\ volRet.op = "backward"
  /\ layer.pad = 1 /\ layer.stride = 1
  /\ Cardinality({ct \in CellTaps : InputCellOf(ct) = <<0, 0, 0>>}) = 4
  /\ \A c \in ConvOutCells : ChainGrad(c) # Zero
  /\ Vol_get_grad(vol, 0, 0, 0) # Zero
  /\ \E t \in InRange(layer.filters[1]) : Vol_get_grad(layer.filters[1], t[1], t[2], t[3]) # Zero
  /\ ReadF64(layer.biases.dw, 1) # Zero

\* ------------------------------------------- claims about mini-batches

\* What one train call with input in adds to entry j of the gradient of
\* group i: input value times chain gradient for a filter, the chain
\* gradient for the bias group (the last).
CallContribution(in, i, j) ==
  IF i < Len(pglist)
  THEN Mul(Num(in.xv * j * Scale), in.c)
  ELSE in.c

\* The sum of the contributions of the calls s[n], ..., s[Len(s)].
RECURSIVE SumOfCalls(_, _, _, _)
SumOfCalls(s, n, i, j) ==
  IF n > Len(s) THEN Zero
  ELSE Add(CallContribution(s[n], i, j), SumOfCalls(s, n + 1, i, j))

\* After every train call the gradients its backward pass left are the
\* sums of the contributions of the calls since the last update step, and
\* a call that performs the update step is the batch_size-th of them.
GradsAreBatchSums ==
  ncalls > 0 =>
    /\ \A i \in 1..Len(afterBackward) : \A j \in 1..Len(afterBackward[i].grads) :
         afterBackward[i].grads[j] = SumOfCalls(pending, 1, i, j)
    /\ Len(pending) = ((k - 1) % opt.batch_size) + 1

\* C24: backward adds to the filter and bias gradients and only the update
\* step clears them, so the raw gradient an update step consumes is the sum
\* of the contributions of exactly the batch_size train calls since the
\* previous update (or construction); the parameters stay as they are in
\* every call that performs no update step.
C24_BatchGradientIsSumOfCalls ==
  [][IsTrainStep =>
       /\ GradsAreBatchSums'
       /\ k' % opt.batch_size = 0 => Len(pending') = opt.batch_size
       /\ \A i \in 1..Len(pglist) : afterBackward'[i].params = pglist[i].params
       /\ k' % opt.batch_size # 0 =>
            /\ \A i \in 1..Len(pglist) : pglist'[i].params = pglist[i].params
            /\ \A i \in 1..Len(pglist) : pglist'[i].grads = afterBackward'[i].grads]_vars

\* Reached: with batch_size 3, the third call consumed the sum of three
\* differing contributions and changed the parameters.
C24_Witness ==
  /\ opt.batch_size = 3
  /\ k = 3
  /\ Len(pending) = 3
  /\ pending[1] # pending[2]
  /\ trainRet.status = "ok"
  /\ ~AllGradsZero(afterBackward)
  /\ AllGradsZero(pglist)
  /\ \E i \in 1..Len(pglist) : pglist[i].params # afterBackward[i].params

\* ------------------------------------------ claims about the loss returned

\* C25: every train call that returns gives loss = cost_loss +
\* l1_decay_loss + l2_decay_loss; a call that performs no update step gives
\* l1_decay_loss = l2_decay_loss = 0, whatever the decay rates and the
\* weights, so that its loss is its cost_loss.
C25_LossIsSumOfParts ==
  [][(IsTrainStep /\ trainRet'.status = "ok") =>
       /\ trainRet'.loss =
            Add(Add(trainRet'.cost_loss, trainRet'.l1_decay_loss), trainRet'.l2_decay_loss)
       /\ k' % opt.batch_size # 0 =>
            /\ trainRet'.l1_decay_loss = Zero
            /\ trainRet'.l2_decay_loss = Zero
            /\ trainRet'.loss = trainRet'.cost_loss]_vars

\* Reached: with batch_size 2, non-zero l1 and l2 decay rates and non-zero
\* weights with l1_decay_mul 1, the third call (no update step) returned
\* decay losses of 0 and a loss equal to its non-zero cost_loss.
C25_Witness ==
  /\ opt.batch_size = 2 /\ k = 3
  /\ opt.l1_decay # Zero /\ opt.l2_decay # Zero
  /\ pglist[1].l1_decay_mul = One
  /\ \A j \in 1..Len(pglist[1].params) : pglist[1].params[j] # Zero
  /\ trainRet.status = "ok"
  /\ trainRet.l1_decay_loss = Zero /\ trainRet.l2_decay_loss = Zero
  /\ trainRet.loss = trainRet.cost_loss
  /\ trainRet.cost_loss # Zero

====
